---------------------------- MODULE Spec2Model ----------------------------
(***************************************************************************)
(* A model of the batch scripts of the repository:                         *)
(*   scripts/us_census/pep/pep_by_asrh/preprocess.py  (process and its     *)
(*       per-layout processors, with the tables of cols_map.py),           *)
(*   scripts/fbi/hate_crime/table9/preprocess.py      (_write_output_csv). *)
(* Column names, statistical-variable names and file paths are the strings *)
(* of the source; the pandas operations the scripts call are modelled by   *)
(* what they do to a table (a list of column names and a list of rows).    *)
(***************************************************************************)
EXTENDS Integers, Sequences, FiniteSets, TLC

VARIABLES
    \* pep_by_asrh process()
    pc,             \* position of process(): "idle", "loop", "done", "raised"
    input_files,    \* the list of input files (path and content) of the run
    file_idx,       \* number of files of input_files already handled
    cleaned_csv,    \* cleaned_csv_file_path on disk: a list of lines, empty if absent
    mcf_file,       \* mcf_file_path on disk: the run that wrote it and its StatVar list
    tmcf_file,      \* tmcf_file_path on disk: the run that wrote it
    sv_list,        \* the local sv_list of process()
    run,            \* how many times process() has been started
    csv_run1,       \* the cleaned CSV as the first run left it
    \* _derive_cols on its own
    dc_df,          \* the table handed to _derive_cols
    dc_table,       \* the name of the derivation table handed to it
    dc_out,         \* what _derive_cols returned, NoneDf before the call
    \* the header rename step
    hd_proc,        \* the processor whose rename step is applied
    hd_cols,        \* the header of the CSV file read
    hd_out,         \* the column names after the rename step, empty before it
    \* _process_state_1980_1989 on its own
    st_file,        \* the records of the state file
    st_out,         \* what the processor returned, NoneDf before the call
    \* FBI table 9 _write_output_csv
    fbi_pc,         \* "loop", "returned", "raised"
    reader,         \* the records the csv.DictReader yields
    reader_pos,     \* number of records already consumed
    writer,         \* the rows written through the csv.DictWriter
    statvars,       \* the statvars list being built
    \* FBI table 9 main
    main_pc,        \* "convert", "create_csv_mcf", "create_mcf", "done", "raised"
    gen_statvar_mcf,\* the flag --gen_statvar_mcf
    xls_files,      \* the yearly tables pd.read_excel returns, in _YEARWISE_CONFIG order
    csv_files,      \* the CSV files written to tmp_dir, one list of records per year
    output_dir,     \* the files main has written to output_dir, by name
    main_statvars,  \* the local statvars of main
    \* _process_county_1990_1999 on its own
    ct_lines,       \* file.readlines(): each line as the list of its numeric tokens
    ct_pos,         \* number of lines the loop has handled
    final_data,     \* the rows paired for aggregation
    data,           \* the pending rows
    skipped_rows,   \* the rows left unpaired
    prev_origin_race_cat,
    curr_origin_race_cat,
    ct_out,         \* what the processor returned, NoneDf before it ends
    \* monthly_population CensusUSACountryPopulation.process
    mp_pc,          \* "start", "clean", "transform", "merge", "done", "raised"
    self_input_files, \* self.input_files: path and loaded table of each file
    mp_idx,         \* number of files _transform_data has finished
    scaling_factor, \* self.scaling_factor
    self_df,        \* self.df, NoneDf while it is None
    cur_df,         \* the local df of _transform_data
    cleaned_csv_file, \* the file at self.cleaned_csv_file_path, NoneDf while absent
    \* the Year and Month columns of _transform_df on their own
    yr_df,          \* the table handed to _transform_df
    yr_out,         \* the table after line 224, NoneDf before
    \* the two routes of a .txt source
    rt_txt,         \* the table pd.read_table returns for the .txt source
    rt_preprocess,  \* what _transform_df returns for the .txt file, NoneDf before
    rt_xlsx,        \* the .xlsx file download.py saves, NoneDf before
    rt_download,    \* what _transform_df returns for that .xlsx file, NoneDf before
    \* one 1990-1999 state file through the loop of process()
    sn_path,        \* the path of the file
    sn_file,        \* the records of the file, as _load_data_df reads them
    sn_pc,          \* "loop" before the file is processed, "done" or "raised" after
    sn_csv          \* the lines appended to the cleaned csv file

vars == << pc, input_files, file_idx, cleaned_csv, mcf_file, tmcf_file, sv_list, run,
           csv_run1, dc_df, dc_table, dc_out, hd_proc, hd_cols, hd_out, st_file, st_out,
           fbi_pc, reader, reader_pos, writer, statvars,
           main_pc, gen_statvar_mcf, xls_files, csv_files, output_dir, main_statvars,
           ct_lines, ct_pos, final_data, data, skipped_rows, prev_origin_race_cat,
           curr_origin_race_cat, ct_out,
           mp_pc, self_input_files, mp_idx, scaling_factor, self_df, cur_df,
           cleaned_csv_file, yr_df, yr_out, rt_txt, rt_preprocess, rt_xlsx, rt_download,
           sn_path, sn_file, sn_pc, sn_csv >>

pepVars == << pc, input_files, file_idx, cleaned_csv, mcf_file, tmcf_file, sv_list, run,
              csv_run1 >>
dcVars  == << dc_df, dc_table, dc_out >>
hdVars  == << hd_proc, hd_cols, hd_out >>
stVars  == << st_file, st_out >>
fbiVars == << fbi_pc, reader, reader_pos, writer, statvars >>
mainVars == << main_pc, gen_statvar_mcf, xls_files, csv_files, output_dir, main_statvars >>
ctVars == << ct_lines, ct_pos, final_data, data, skipped_rows, prev_origin_race_cat,
             curr_origin_race_cat, ct_out >>
mpVars == << mp_pc, self_input_files, mp_idx, scaling_factor, self_df, cur_df,
             cleaned_csv_file >>
\* the variables of the specifications other than the first five
yrVars == << yr_df, yr_out >>
rtVars == << rt_txt, rt_preprocess, rt_xlsx, rt_download >>
snVars == << sn_path, sn_file, sn_pc, sn_csv >>
extVars == << mainVars, ctVars, mpVars, yrVars, rtVars, snVars >>
\* the variables of the first five specifications
baseVars == << pepVars, dcVars, hdVars, stVars, fbiVars >>

-----------------------------------------------------------------------------
(* Python values *)

\* Python's None.
None == "<None>"
\* pandas' missing value (float NaN).
NaN == "<NaN>"

\* An int and a str never compare equal in Python; the Age column holds both kinds.
PyInt(n) == << "int", n >>
PyStr(s) == << "str", s >>
\* str(value), as an f-string formats it.
Format(v) == IF v[1] = "int" THEN ToString(v[2]) ELSE v[2]

\* list(...): a sequence held as a list of evaluated items
List(s) == s \o << >>

Range(s) == { s[i] : i \in DOMAIN s }

RECURSIVE SumSeq(_)
SumSeq(s) == IF s = << >> THEN 0 ELSE Head(s) + SumSeq(Tail(s))

RECURSIVE Flatten(_)
Flatten(ss) == IF ss = << >> THEN << >> ELSE Head(ss) \o Flatten(Tail(ss))

-----------------------------------------------------------------------------
(* str methods *)

\* sub in s
Contains(s, sub) ==
    \E i \in 1 .. (Len(s) - Len(sub) + 1) : SubSeq(s, i, i + Len(sub) - 1) = sub

StartsWith(s, p) == Len(s) >= Len(p) /\ SubSeq(s, 1, Len(p)) = p

\* s.replace(old, new): every non-overlapping occurrence, left to right.
RECURSIVE Replace(_, _, _)
Replace(s, old, new) ==
    LET at == { i \in 1 .. (Len(s) - Len(old) + 1) : SubSeq(s, i, i + Len(old) - 1) = old }
    IN  IF at = {} THEN s
        ELSE LET first == CHOOSE i \in at : \A j \in at : i <= j
             IN  SubSeq(s, 1, first - 1) \o new
                   \o Replace(SubSeq(s, first + Len(old), Len(s)), old, new)

\* s.split(sep)[-1], sep a single character.
SplitLast(s, sep) ==
    LET at == { i \in 1 .. Len(s) : SubSeq(s, i, i) = sep }
        last == IF at = {} THEN 0 ELSE CHOOSE i \in at : \A j \in at : j <= i
    IN  SubSeq(s, last + 1, Len(s))

\* s.pad(width, side="left", fillchar)
RECURSIVE PadLeft(_, _, _)
PadLeft(s, width, fillchar) ==
    IF Len(s) >= width THEN s ELSE PadLeft(fillchar \o s, width, fillchar)

-----------------------------------------------------------------------------
\* cols_map.py _cols_dict: dataset header -> full column name, as (header, name) pairs.
cols_dict ==
    << <<"UNIVERSE", "Universe">>,
       <<"MONTH", "Month">>,
       <<"YEAR", "Year">>,
       <<"AGE", "Age">>,
       <<"TOT_POP", "Total_Population">>,
       <<"TOT_MALE", "Male">>,
       <<"TOT_FEMALE", "Female">>,
       <<"WA_MALE", "Male_WhiteAlone">>,
       <<"WA_FEMALE", "Female_WhiteAlone">>,
       <<"BA_MALE", "Male_BlackOrAfricanAmericanAlone">>,
       <<"BA_FEMALE", "Female_BlackOrAfricanAmericanAlone">>,
       <<"IA_MALE", "Male_AmericanIndianAndAlaskaNativeAlone">>,
       <<"IA_FEMALE", "Female_AmericanIndianAndAlaskaNativeAlone">>,
       <<"AA_MALE", "Male_AsianAlone">>,
       <<"AA_FEMALE", "Female_AsianAlone">>,
       <<"NA_MALE", "Male_NativeHawaiianAndOtherPacificIslanderAlone">>,
       <<"NA_FEMALE", "Female_NativeHawaiianAndOtherPacificIslanderAlone">>,
       <<"TOM_MALE", "Male_TwoOrMoreRaces">>,
       <<"TOM_FEMALE", "Female_TwoOrMoreRaces">>,
       <<"WAC_MALE", "Male_WhiteAloneOrInCombinationWithOneOrMoreOtherRaces">>,
       <<"WAC_FEMALE", "Female_WhiteAloneOrInCombinationWithOneOrMoreOtherRaces">>,
       <<"BAC_MALE", "Male_BlackOrAfricanAmericanAloneOrInCombinationWithOneOrMoreOtherRaces">>,
       <<"BAC_FEMALE", "Female_BlackOrAfricanAmericanAloneOrInCombinationWithOneOrMoreOtherRaces">>,
       <<"IAC_MALE", "Male_AmericanIndianAndAlaskaNativeAloneOrInCombinationWithOneOrMoreOtherRaces">>,
       <<"IAC_FEMALE", "Female_AmericanIndianAndAlaskaNativeAloneOrInCombinationWithOneOrMoreOtherRaces">>,
       <<"AAC_MALE", "Male_AsianAloneOrInCombinationWithOneOrMoreOtherRaces">>,
       <<"AAC_FEMALE", "Female_AsianAloneOrInCombinationWithOneOrMoreOtherRaces">>,
       <<"NAC_MALE", "Male_NativeHawaiianAndOtherPacificIslanderAloneOrInCombinationWithOneOrMoreOtherRaces">>,
       <<"NAC_FEMALE", "Female_NativeHawaiianAndOtherPacificIslanderAloneOrInCombinationWithOneOrMoreOtherRaces">>,
       <<"NH_MALE", "Male_NotHispanicOrLatino">>,
       <<"NH_FEMALE", "Female_NotHispanicOrLatino">>,
       <<"NHWA_MALE", "Male_WhiteAloneNotHispanicOrLatino">>,
       <<"NHWA_FEMALE", "Female_WhiteAloneNotHispanicOrLatino">>,
       <<"NHBA_MALE", "Male_NotHispanicOrLatino_BlackOrAfricanAmericanAlone">>,
       <<"NHBA_FEMALE", "Female_NotHispanicOrLatino_BlackOrAfricanAmericanAlone">>,
       <<"NHIA_MALE", "Male_NotHispanicOrLatino_AmericanIndianAndAlaskaNativeAlone">>,
       <<"NHIA_FEMALE", "Female_NotHispanicOrLatino_AmericanIndianAndAlaskaNativeAlone">>,
       <<"NHAA_MALE", "Male_NotHispanicOrLatino_AsianAlone">>,
       <<"NHAA_FEMALE", "Female_NotHispanicOrLatino_AsianAlone">>,
       <<"NHNA_MALE", "Male_NotHispanicOrLatino_NativeHawaiianAndOtherPacificIslanderAlone">>,
       <<"NHNA_FEMALE", "Female_NotHispanicOrLatino_NativeHawaiianAndOtherPacificIslanderAlone">>,
       <<"NHTOM_MALE", "Male_NotHispanicOrLatino_TwoOrMoreRaces">>,
       <<"NHTOM_FEMALE", "Female_NotHispanicOrLatino_TwoOrMoreRaces">>,
       <<"NHWAC_MALE", "Male_NotHispanicOrLatino_WhiteAloneOrInCombinationWithOneOrMoreOtherRaces">>,
       <<"NHWAC_FEMALE", "Female_NotHispanicOrLatino_WhiteAloneOrInCombinationWithOneOrMoreOtherRaces">>,
       <<"NHBAC_MALE", "Male_NotHispanicOrLatino_BlackOrAfricanAmericanAloneOrInCombinationWithOneOrMoreOtherRaces">>,
       <<"NHBAC_FEMALE", "Female_NotHispanicOrLatino_BlackOrAfricanAmericanAloneOrInCombinationWithOneOrMoreOtherRaces">>,
       <<"NHIAC_MALE", "Male_NotHispanicOrLatino_AmericanIndianAndAlaskaNativeAloneOrInCombinationWithOneOrMoreOtherRaces">>,
       <<"NHIAC_FEMALE", "Female_NotHispanicOrLatino_AmericanIndianAndAlaskaNativeAloneOrInCombinationWithOneOrMoreOtherRaces">>,
       <<"NHAAC_MALE", "Male_NotHispanicOrLatino_AsianAloneOrInCombinationWithOneOrMoreOtherRaces">>,
       <<"NHAAC_FEMALE", "Female_NotHispanicOrLatino_AsianAloneOrInCombinationWithOneOrMoreOtherRaces">>,
       <<"NHNAC_MALE", "Male_NotHispanicOrLatino_NativeHawaiianAndOtherPacificIslanderAloneOrInCombinationWithOneOrMoreOtherRaces">>,
       <<"NHNAC_FEMALE", "Female_NotHispanicOrLatino_NativeHawaiianAndOtherPacificIslanderAloneOrInCombinationWithOneOrMoreOtherRaces">>,
       <<"H_MALE", "Male_HispanicOrLatino">>,
       <<"H_FEMALE", "Female_HispanicOrLatino">>,
       <<"HWA_MALE", "Male_HispanicOrLatino_WhiteAlone">>,
       <<"HWA_FEMALE", "Female_HispanicOrLatino_WhiteAlone">>,
       <<"HBA_MALE", "Male_HispanicOrLatino_BlackOrAfricanAmericanAlone">>,
       <<"HBA_FEMALE", "Female_HispanicOrLatino_BlackOrAfricanAmericanAlone">>,
       <<"HIA_MALE", "Male_HispanicOrLatino_AmericanIndianAndAlaskaNativeAlone">>,
       <<"HIA_FEMALE", "Female_HispanicOrLatino_AmericanIndianAndAlaskaNativeAlone">>,
       <<"HAA_MALE", "Male_HispanicOrLatino_AsianAlone">>,
       <<"HAA_FEMALE", "Female_HispanicOrLatino_AsianAlone">>,
       <<"HNA_MALE", "Male_HispanicOrLatino_NativeHawaiianAndOtherPacificIslanderAlone">>,
       <<"HNA_FEMALE", "Female_HispanicOrLatino_NativeHawaiianAndOtherPacificIslanderAlone">>,
       <<"HTOM_MALE", "Male_HispanicOrLatino_TwoOrMoreRaces">>,
       <<"HTOM_FEMALE", "Female_HispanicOrLatino_TwoOrMoreRaces">>,
       <<"HWAC_MALE", "Male_HispanicOrLatino_WhiteAloneOrInCombinationWithOneOrMoreOtherRaces">>,
       <<"HWAC_FEMALE", "Female_HispanicOrLatino_WhiteAloneOrInCombinationWithOneOrMoreOtherRaces">>,
       <<"HBAC_MALE", "Male_HispanicOrLatino_BlackOrAfricanAmericanAloneOrInCombinationWithOneOrMoreOtherRaces">>,
       <<"HIAC_MALE", "Male_HispanicOrLatino_AmericanIndianAndAlaskaNativeAloneOrInCombinationWithOneOrMoreOtherRaces">>,
       <<"HIAC_FEMALE", "Female_HispanicOrLatino_AmericanIndianAndAlaskaNativeAloneOrInCombinationWithOneOrMoreOtherRaces">>,
       <<"HAAC_MALE", "Male_HispanicOrLatino_AsianAloneOrInCombinationWithOneOrMoreOtherRaces">>,
       <<"HAAC_FEMALE", "Female_HispanicOrLatino_AsianAloneOrInCombinationWithOneOrMoreOtherRaces">>,
       <<"HNAC_MALE", "Male_HispanicOrLatino_NativeHawaiianAndOtherPacificIslanderAloneOrInCombinationWithOneOrMoreOtherRaces">>,
       <<"HNAC_FEMALE", "Female_HispanicOrLatino_NativeHawaiianAndOtherPacificIslanderAloneOrInCombinationWithOneOrMoreOtherRaces">>,
       <<"HBAC_FEMALE", "Female_HispanicOrLatino_BlackOrAfricanAmericanAloneOrInCombinationWithOneOrMoreOtherRaces">>,
       <<"SUMLEV", "SUMLEV">>,
       <<"STATE", "STATE">>,
       <<"COUNTY", "COUNTY">>,
       <<"STNAME", "STNAME">>,
       <<"CTYNAME", "CTYNAME">>,
       <<"AGEGRP", "AGEGRP">> >>

\* cols_map.py _nationals_1980_1999_hispanic_cols: derived column -> constituent columns, in dict order.
nationals_1980_1999_hispanic_cols ==
    << <<"Male_HispanicOrLatino_WhiteAlone_computed",
          <<"White_Male_Population", "Male_WhiteAloneNotHispanicOrLatino">> >>,
       <<"Female_HispanicOrLatino_WhiteAlone_computed",
          <<"White_Female_Population", "Female_WhiteAloneNotHispanicOrLatino">> >>,
       <<"Male_HispanicOrLatino_Black_computed",
          <<"Black_Male_Population", "Male_NotHispanicOrLatino_Black">> >>,
       <<"Female_HispanicOrLatino_Black_computed",
          <<"Black_Female_Population", "Female_NotHispanicOrLatino_Black">> >>,
       <<"Male_HispanicOrLatino_AmericanIndianAndAlaskaNativeAlone_computed",
          <<"Male_AsianOrPacificIslander",
          "Male_NotHispanicOrLatino_AmericanIndianAndAlaskaNativeAlone">> >>,
       <<"Female_HispanicOrLatino_AmericanIndianAndAlaskaNativeAlone_computed",
          <<"Female_AsianOrPacificIslander", "Female_NotHispanicOrLatino_AsianOrPacificIslander">> >>,
       <<"Male_HispanicOrLatino_AsianOrPacificIslander_computed",
          <<"Male_AsianOrPacificIslander", "Male_NotHispanicOrLatino_AsianOrPacificIslander">> >>,
       <<"Female_HispanicOrLatino_AsianOrPacificIslander_computed",
          <<"Female_AsianOrPacificIslander", "Female_NotHispanicOrLatino_AsianOrPacificIslander">> >> >>

\* cols_map.py _nationals_1980_1999_derived_cols: derived column -> constituent columns, in dict order.
nationals_1980_1999_derived_cols ==
    << <<"Male_NotHispanicOrLatino_computed",
          <<"Male_WhiteAloneNotHispanicOrLatino", "Male_NotHispanicOrLatino_Black",
          "Male_NotHispanicOrLatino_AmericanIndianAndAlaskaNativeAlone",
          "Male_NotHispanicOrLatino_AsianOrPacificIslander">> >>,
       <<"Female_NotHispanicOrLatino_computed",
          <<"Female_WhiteAloneNotHispanicOrLatino", "Female_NotHispanicOrLatino_Black",
          "Female_NotHispanicOrLatino_AmericanIndianAndAlaskaNativeAlone",
          "Female_NotHispanicOrLatino_AsianOrPacificIslander">> >>,
       <<"Male_HispanicOrLatino_computed",
          <<"Male_HispanicOrLatino_WhiteAlone_computed", "Male_HispanicOrLatino_Black_computed",
          "Male_HispanicOrLatino_AmericanIndianAndAlaskaNativeAlone_computed",
          "Male_HispanicOrLatino_AsianOrPacificIslander_computed">> >>,
       <<"Female_HispanicOrLatino_computed",
          <<"Female_HispanicOrLatino_WhiteAlone_computed",
          "Female_HispanicOrLatino_Black_computed",
          "Female_HispanicOrLatino_AmericanIndianAndAlaskaNativeAlone_computed",
          "Female_HispanicOrLatino_AsianOrPacificIslander_computed">> >>,
       <<"WhiteAloneNotHispanicOrLatino_computed",
          <<"Male_WhiteAloneNotHispanicOrLatino", "Female_WhiteAloneNotHispanicOrLatino">> >>,
       <<"NotHispanicOrLatino_Black_computed",
          <<"Male_NotHispanicOrLatino_Black", "Female_NotHispanicOrLatino_Black">> >>,
       <<"HispanicOrLatino_WhiteAlone_computed",
          <<"Male_HispanicOrLatino_WhiteAlone_computed",
          "Female_HispanicOrLatino_WhiteAlone_computed">> >>,
       <<"HispanicOrLatino_Black_computed",
          <<"Male_HispanicOrLatino_Black_computed", "Female_HispanicOrLatino_Black_computed">> >>,
       <<"NotHispanicOrLatino_AmericanIndianAndAlaskaNativeAlone_computed",
          <<"Male_NotHispanicOrLatino_AmericanIndianAndAlaskaNativeAlone",
          "Female_NotHispanicOrLatino_AmericanIndianAndAlaskaNativeAlone">> >>,
       <<"HispanicOrLatino_AmericanIndianAndAlaskaNativeAlone_computed",
          <<"Male_HispanicOrLatino_AmericanIndianAndAlaskaNativeAlone_computed",
          "Female_HispanicOrLatino_AmericanIndianAndAlaskaNativeAlone_computed">> >>,
       <<"NotHispanicOrLatino_AsianOrPacificIslander_computed",
          <<"Male_HispanicOrLatino_AsianOrPacificIslander_computed",
          "Female_HispanicOrLatino_AsianOrPacificIslander_computed">> >>,
       <<"HispanicOrLatino_AsianOrPacificIslander_computed",
          <<"Male_HispanicOrLatino_AsianOrPacificIslander_computed",
          "Female_HispanicOrLatino_AsianOrPacificIslander_computed">> >>,
       <<"HispanicOrLatino_computed",
          <<"Male_HispanicOrLatino_WhiteAlone_computed", "Male_HispanicOrLatino_Black_computed",
          "Male_HispanicOrLatino_AmericanIndianAndAlaskaNativeAlone_computed",
          "Male_HispanicOrLatino_AsianOrPacificIslander_computed",
          "Female_HispanicOrLatino_WhiteAlone_computed",
          "Female_HispanicOrLatino_Black_computed",
          "Female_HispanicOrLatino_AmericanIndianAndAlaskaNativeAlone_computed",
          "Female_HispanicOrLatino_AsianOrPacificIslander_computed">> >>,
       <<"NotHispanicOrLatino_computed",
          <<"Male_WhiteAloneNotHispanicOrLatino", "Male_NotHispanicOrLatino_Black",
          "Male_NotHispanicOrLatino_AmericanIndianAndAlaskaNativeAlone",
          "Male_NotHispanicOrLatino_AsianOrPacificIslander",
          "Female_WhiteAloneNotHispanicOrLatino", "Female_NotHispanicOrLatino_Black",
          "Female_NotHispanicOrLatino_AmericanIndianAndAlaskaNativeAlone",
          "Female_NotHispanicOrLatino_AsianOrPacificIslander">> >> >>

\* cols_map.py _nationals_2000_2009_dict: derived column -> constituent columns, in dict order.
nationals_2000_2009_dict ==
    << <<"HispanicOrLatino_WhiteAlone_computed",
          <<"Female_HispanicOrLatino_WhiteAlone", "Male_HispanicOrLatino_WhiteAlone">> >>,
       <<"HispanicOrLatino_BlackOrAfricanAmericanAlone_computed",
          <<"Female_HispanicOrLatino_BlackOrAfricanAmericanAlone",
          "Male_HispanicOrLatino_BlackOrAfricanAmericanAlone">> >>,
       <<"HispanicOrLatino_AmericanIndianAndAlaskaNativeAlone_computed",
          <<"Female_HispanicOrLatino_AmericanIndianAndAlaskaNativeAlone",
          "Male_HispanicOrLatino_AmericanIndianAndAlaskaNativeAlone">> >>,
       <<"HispanicOrLatino_AsianAlone_computed",
          <<"Female_HispanicOrLatino_AsianAlone", "Male_HispanicOrLatino_AsianAlone">> >>,
       <<"HispanicOrLatino_NativeHawaiianAndOtherPacificIslanderAlone_computed",
          <<"Female_HispanicOrLatino_NativeHawaiianAndOtherPacificIslanderAlone",
          "Male_HispanicOrLatino_NativeHawaiianAndOtherPacificIslanderAlone">> >>,
       <<"HispanicOrLatino_TwoOrMoreRaces_computed",
          <<"Male_HispanicOrLatino_TwoOrMoreRaces", "Female_HispanicOrLatino_TwoOrMoreRaces">> >>,
       <<"WhiteAloneNotHispanicOrLatino_computed",
          <<"Female_WhiteAloneNotHispanicOrLatino", "Male_WhiteAloneNotHispanicOrLatino">> >>,
       <<"NotHispanicOrLatino_BlackOrAfricanAmericanAlone_computed",
          <<"Female_NotHispanicOrLatino_BlackOrAfricanAmericanAlone",
          "Male_NotHispanicOrLatino_BlackOrAfricanAmericanAlone">> >>,
       <<"NotHispanicOrLatino_AmericanIndianAndAlaskaNativeAlone_computed",
          <<"Female_NotHispanicOrLatino_AmericanIndianAndAlaskaNativeAlone",
          "Male_NotHispanicOrLatino_AmericanIndianAndAlaskaNativeAlone">> >>,
       <<"NotHispanicOrLatino_AsianAlone_computed",
          <<"Female_NotHispanicOrLatino_AsianAlone", "Male_NotHispanicOrLatino_AsianAlone">> >>,
       <<"NotHispanicOrLatino_NativeHawaiianAndOtherPacificIslanderAlone_computed",
          <<"Female_NotHispanicOrLatino_NativeHawaiianAndOtherPacificIslanderAlone",
          "Male_NotHispanicOrLatino_NativeHawaiianAndOtherPacificIslanderAlone">> >>,
       <<"NotHispanicOrLatino_TwoOrMoreRaces_computed",
          <<"Male_NotHispanicOrLatino_TwoOrMoreRaces", "Female_NotHispanicOrLatino_TwoOrMoreRaces">> >>,
       <<"HispanicOrLatino_computed",
          <<"Male_HispanicOrLatino", "Female_HispanicOrLatino">> >>,
       <<"NotHispanicOrLatino_computed",
          <<"Male_NotHispanicOrLatino", "Female_NotHispanicOrLatino">> >> >>

\* cols_map.py _state_2010_2020_hispanic_dict: derived column -> constituent columns, in dict order.
state_2010_2020_hispanic_dict ==
    << <<"HispanicOrLatino_WhiteAlone_computed",
          <<"Female_HispanicOrLatino_WhiteAlone", "Male_HispanicOrLatino_WhiteAlone">> >>,
       <<"HispanicOrLatino_AmericanIndianAndAlaskaNativeAlone_computed",
          <<"Female_HispanicOrLatino_AmericanIndianAndAlaskaNativeAlone",
          "Male_HispanicOrLatino_AmericanIndianAndAlaskaNativeAlone">> >>,
       <<"HispanicOrLatino_AsianAlone_computed",
          <<"Female_HispanicOrLatino_AsianAlone", "Male_HispanicOrLatino_AsianAlone">> >>,
       <<"HispanicOrLatino_NativeHawaiianAndOtherPacificIslanderAlone_computed",
          <<"Female_HispanicOrLatino_NativeHawaiianAndOtherPacificIslanderAlone",
          "Male_HispanicOrLatino_NativeHawaiianAndOtherPacificIslanderAlone">> >>,
       <<"HispanicOrLatino_TwoOrMoreRaces_computed",
          <<"Male_HispanicOrLatino_TwoOrMoreRaces", "Female_HispanicOrLatino_TwoOrMoreRaces">> >>,
       <<"WhiteAloneNotHispanicOrLatino_computed",
          <<"Female_WhiteAloneNotHispanicOrLatino", "Male_WhiteAloneNotHispanicOrLatino">> >>,
       <<"NotHispanicOrLatino_BlackOrAfricanAmericanAlone_computed",
          <<"Female_NotHispanicOrLatino_BlackOrAfricanAmericanAlone",
          "Male_NotHispanicOrLatino_BlackOrAfricanAmericanAlone">> >>,
       <<"NotHispanicOrLatino_AmericanIndianAndAlaskaNativeAlone_computed",
          <<"Female_NotHispanicOrLatino_AmericanIndianAndAlaskaNativeAlone",
          "Male_NotHispanicOrLatino_AmericanIndianAndAlaskaNativeAlone">> >>,
       <<"NotHispanicOrLatino_AsianAlone_computed",
          <<"Female_NotHispanicOrLatino_AsianAlone", "Male_NotHispanicOrLatino_AsianAlone">> >>,
       <<"NotHispanicOrLatino_NativeHawaiianAndOtherPacificIslanderAlone_computed",
          <<"Female_NotHispanicOrLatino_NativeHawaiianAndOtherPacificIslanderAlone",
          "Male_NotHispanicOrLatino_NativeHawaiianAndOtherPacificIslanderAlone">> >>,
       <<"NotHispanicOrLatino_TwoOrMoreRaces_computed",
          <<"Male_NotHispanicOrLatino_TwoOrMoreRaces", "Female_NotHispanicOrLatino_TwoOrMoreRaces">> >>,
       <<"Male_NotHispanicOrLatino_computed",
          <<"Male_WhiteAloneNotHispanicOrLatino",
          "Male_NotHispanicOrLatino_BlackOrAfricanAmericanAlone",
          "Male_NotHispanicOrLatino_AmericanIndianAndAlaskaNativeAlone",
          "Male_NotHispanicOrLatino_AsianAlone",
          "Male_NotHispanicOrLatino_NativeHawaiianAndOtherPacificIslanderAlone",
          "Male_NotHispanicOrLatino_TwoOrMoreRaces">> >>,
       <<"Female_NotHispanicOrLatino_computed",
          <<"Female_WhiteAloneNotHispanicOrLatino",
          "Female_NotHispanicOrLatino_BlackOrAfricanAmericanAlone",
          "Female_NotHispanicOrLatino_AmericanIndianAndAlaskaNativeAlone",
          "Female_NotHispanicOrLatino_AsianAlone",
          "Female_NotHispanicOrLatino_NativeHawaiianAndOtherPacificIslanderAlone",
          "Female_NotHispanicOrLatino_TwoOrMoreRaces">> >>,
       <<"Male_HispanicOrLatino_computed",
          <<"Male_HispanicOrLatino_WhiteAlone",
          "Male_HispanicOrLatino_BlackOrAfricanAmericanAlone",
          "Male_HispanicOrLatino_AmericanIndianAndAlaskaNativeAlone",
          "Male_HispanicOrLatino_AsianAlone",
          "Male_HispanicOrLatino_NativeHawaiianAndOtherPacificIslanderAlone",
          "Male_HispanicOrLatino_TwoOrMoreRaces">> >>,
       <<"Female_HispanicOrLatino_computed",
          <<"Female_HispanicOrLatino_WhiteAlone",
          "Female_HispanicOrLatino_BlackOrAfricanAmericanAlone",
          "Female_HispanicOrLatino_AmericanIndianAndAlaskaNativeAlone",
          "Female_HispanicOrLatino_AsianAlone",
          "Female_HispanicOrLatino_NativeHawaiianAndOtherPacificIslanderAlone",
          "Female_HispanicOrLatino_TwoOrMoreRaces">> >> >>

\* cols_map.py _state_2010_2020_total_dict: derived column -> constituent columns, in dict order.
state_2010_2020_total_dict ==
    << <<"HispanicOrLatino_computed",
          <<"Male_HispanicOrLatino_computed", "Female_HispanicOrLatino_computed">> >>,
       <<"NotHispanicOrLatino_computed",
          <<"Male_NotHispanicOrLatino_computed", "Female_NotHispanicOrLatino_computed">> >> >>

\* cols_map.py _nationals_2010_2021_dict: derived column -> constituent columns, in dict order.
nationals_2010_2021_dict ==
    << <<"WhiteAloneNotHispanicOrLatino_computed",
          <<"Male_WhiteAloneNotHispanicOrLatino", "Female_WhiteAloneNotHispanicOrLatino">> >>,
       <<"NotHispanicOrLatino_BlackOrAfricanAmericanAlone_computed",
          <<"Male_NotHispanicOrLatino_BlackOrAfricanAmericanAlone",
          "Female_NotHispanicOrLatino_BlackOrAfricanAmericanAlone">> >>,
       <<"NotHispanicOrLatino_AmericanIndianAndAlaskaNativeAlone_computed",
          <<"Male_NotHispanicOrLatino_AmericanIndianAndAlaskaNativeAlone",
          "Female_NotHispanicOrLatino_AmericanIndianAndAlaskaNativeAlone">> >>,
       <<"NotHispanicOrLatino_AsianAlone_computed",
          <<"Male_NotHispanicOrLatino_AsianAlone", "Female_NotHispanicOrLatino_AsianAlone">> >>,
       <<"NotHispanicOrLatino_NativeHawaiianAndOtherPacificIslanderAlone_computed",
          <<"Male_NotHispanicOrLatino_NativeHawaiianAndOtherPacificIslanderAlone",
          "Female_NotHispanicOrLatino_NativeHawaiianAndOtherPacificIslanderAlone">> >>,
       <<"NotHispanicOrLatino_TwoOrMoreRaces_computed",
          <<"Male_NotHispanicOrLatino_TwoOrMoreRaces", "Female_NotHispanicOrLatino_TwoOrMoreRaces">> >>,
       <<"NotHispanicOrLatino_WhiteAloneOrInCombinationWithOneOrMoreOtherRaces_computed",
          <<"Male_NotHispanicOrLatino_WhiteAloneOrInCombinationWithOneOrMoreOtherRaces",
          "Female_NotHispanicOrLatino_WhiteAloneOrInCombinationWithOneOrMoreOtherRaces">> >>,
       <<"NotHispanicOrLatino_BlackOrAfricanAmericanAloneOrInCombinationWithOneOrMoreOtherRaces_computed",
          <<"Male_NotHispanicOrLatino_BlackOrAfricanAmericanAloneOrInCombinationWithOneOrMoreOtherRaces",
          "Female_NotHispanicOrLatino_BlackOrAfricanAmericanAloneOrInCombinationWithOneOrMoreOtherRaces">> >>,
       <<"NotHispanicOrLatino_AmericanIndianAndAlaskaNativeAloneOrInCombinationWithOneOrMoreOtherRaces_computed",
          <<"Male_NotHispanicOrLatino_AmericanIndianAndAlaskaNativeAloneOrInCombinationWithOneOrMoreOtherRaces",
          "Female_NotHispanicOrLatino_AmericanIndianAndAlaskaNativeAloneOrInCombinationWithOneOrMoreOtherRaces">> >>,
       <<"NotHispanicOrLatino_AsianAloneOrInCombinationWithOneOrMoreOtherRaces_computed",
          <<"Male_NotHispanicOrLatino_AsianAloneOrInCombinationWithOneOrMoreOtherRaces",
          "Female_NotHispanicOrLatino_AsianAloneOrInCombinationWithOneOrMoreOtherRaces">> >>,
       <<"NotHispanicOrLatino_NativeHawaiianAndOtherPacificIslanderAloneOrInCombinationWithOneOrMoreOtherRaces_computed",
          <<"Male_NotHispanicOrLatino_NativeHawaiianAndOtherPacificIslanderAloneOrInCombinationWithOneOrMoreOtherRaces",
          "Female_NotHispanicOrLatino_NativeHawaiianAndOtherPacificIslanderAloneOrInCombinationWithOneOrMoreOtherRaces">> >>,
       <<"HispanicOrLatino_WhiteAlone_computed",
          <<"Male_HispanicOrLatino_WhiteAlone", "Female_HispanicOrLatino_WhiteAlone">> >>,
       <<"HispanicOrLatino_BlackOrAfricanAmericanAlone_computed",
          <<"Male_HispanicOrLatino_BlackOrAfricanAmericanAlone",
          "Female_HispanicOrLatino_BlackOrAfricanAmericanAlone">> >>,
       <<"HispanicOrLatino_AmericanIndianAndAlaskaNativeAlone_computed",
          <<"Male_HispanicOrLatino_AmericanIndianAndAlaskaNativeAlone",
          "Female_HispanicOrLatino_AmericanIndianAndAlaskaNativeAlone">> >>,
       <<"HispanicOrLatino_AsianAlone_computed",
          <<"Male_HispanicOrLatino_AsianAlone", "Female_HispanicOrLatino_AsianAlone">> >>,
       <<"HispanicOrLatino_NativeHawaiianAndOtherPacificIslanderAlone_computed",
          <<"Male_HispanicOrLatino_NativeHawaiianAndOtherPacificIslanderAlone",
          "Female_HispanicOrLatino_NativeHawaiianAndOtherPacificIslanderAlone">> >>,
       <<"HispanicOrLatino_TwoOrMoreRaces_computed",
          <<"Male_HispanicOrLatino_TwoOrMoreRaces", "Female_HispanicOrLatino_TwoOrMoreRaces">> >>,
       <<"HispanicOrLatino_WhiteAloneOrInCombinationWithOneOrMoreOtherRaces_computed",
          <<"Male_HispanicOrLatino_WhiteAloneOrInCombinationWithOneOrMoreOtherRaces",
          "Female_HispanicOrLatino_WhiteAloneOrInCombinationWithOneOrMoreOtherRaces">> >>,
       <<"HispanicOrLatino_BlackOrAfricanAmericanAloneOrInCombinationWithOneOrMoreOtherRaces_computed",
          <<"Male_HispanicOrLatino_BlackOrAfricanAmericanAloneOrInCombinationWithOneOrMoreOtherRaces",
          "Female_HispanicOrLatino_BlackOrAfricanAmericanAloneOrInCombinationWithOneOrMoreOtherRaces">> >>,
       <<"HispanicOrLatino_AmericanIndianAndAlaskaNativeAloneOrInCombinationWithOneOrMoreOtherRaces_computed",
          <<"Male_HispanicOrLatino_AmericanIndianAndAlaskaNativeAloneOrInCombinationWithOneOrMoreOtherRaces",
          "Female_HispanicOrLatino_AmericanIndianAndAlaskaNativeAloneOrInCombinationWithOneOrMoreOtherRaces">> >>,
       <<"HispanicOrLatino_AsianAloneOrInCombinationWithOneOrMoreOtherRaces_computed",
          <<"Male_HispanicOrLatino_AsianAloneOrInCombinationWithOneOrMoreOtherRaces",
          "Female_HispanicOrLatino_AsianAloneOrInCombinationWithOneOrMoreOtherRaces">> >>,
       <<"HispanicOrLatino_NativeHawaiianAndOtherPacificIslanderAloneOrInCombinationWithOneOrMoreOtherRaces_computed",
          <<"Male_HispanicOrLatino_NativeHawaiianAndOtherPacificIslanderAloneOrInCombinationWithOneOrMoreOtherRaces",
          "Female_HispanicOrLatino_NativeHawaiianAndOtherPacificIslanderAloneOrInCombinationWithOneOrMoreOtherRaces">> >> >>

\* cols_map.py _county_2000_2009_dict: derived column -> constituent columns, in dict order.
county_2000_2009_dict ==
    << <<"HispanicOrLatino_WhiteAlone_computed",
          <<"Female_HispanicOrLatino_WhiteAlone", "Male_HispanicOrLatino_WhiteAlone">> >>,
       <<"HispanicOrLatino_BlackOrAfricanAmericanAlone_computed",
          <<"Female_HispanicOrLatino_BlackOrAfricanAmericanAlone",
          "Male_HispanicOrLatino_BlackOrAfricanAmericanAlone">> >>,
       <<"HispanicOrLatino_AmericanIndianAndAlaskaNativeAlone_computed",
          <<"Female_HispanicOrLatino_AmericanIndianAndAlaskaNativeAlone",
          "Male_HispanicOrLatino_AmericanIndianAndAlaskaNativeAlone">> >>,
       <<"HispanicOrLatino_AsianAlone_computed",
          <<"Female_HispanicOrLatino_AsianAlone", "Male_HispanicOrLatino_AsianAlone">> >>,
       <<"HispanicOrLatino_NativeHawaiianAndOtherPacificIslanderAlone_computed",
          <<"Female_HispanicOrLatino_NativeHawaiianAndOtherPacificIslanderAlone",
          "Male_HispanicOrLatino_NativeHawaiianAndOtherPacificIslanderAlone">> >>,
       <<"HispanicOrLatino_TwoOrMoreRaces_computed",
          <<"Male_HispanicOrLatino_TwoOrMoreRaces", "Female_HispanicOrLatino_TwoOrMoreRaces">> >>,
       <<"WhiteAloneNotHispanicOrLatino_computed",
          <<"Female_WhiteAloneNotHispanicOrLatino", "Male_WhiteAloneNotHispanicOrLatino">> >>,
       <<"NotHispanicOrLatino_BlackOrAfricanAmericanAlone_computed",
          <<"Female_NotHispanicOrLatino_BlackOrAfricanAmericanAlone",
          "Male_NotHispanicOrLatino_BlackOrAfricanAmericanAlone">> >>,
       <<"NotHispanicOrLatino_AmericanIndianAndAlaskaNativeAlone_computed",
          <<"Female_NotHispanicOrLatino_AmericanIndianAndAlaskaNativeAlone",
          "Male_NotHispanicOrLatino_AmericanIndianAndAlaskaNativeAlone">> >>,
       <<"NotHispanicOrLatino_AsianAlone_computed",
          <<"Female_NotHispanicOrLatino_AsianAlone", "Male_NotHispanicOrLatino_AsianAlone">> >>,
       <<"NotHispanicOrLatino_NativeHawaiianAndOtherPacificIslanderAlone_computed",
          <<"Female_NotHispanicOrLatino_NativeHawaiianAndOtherPacificIslanderAlone",
          "Male_NotHispanicOrLatino_NativeHawaiianAndOtherPacificIslanderAlone">> >>,
       <<"NotHispanicOrLatino_TwoOrMoreRaces_computed",
          <<"Male_NotHispanicOrLatino_TwoOrMoreRaces", "Female_NotHispanicOrLatino_TwoOrMoreRaces">> >>,
       <<"HispanicOrLatino_computed",
          <<"Male_HispanicOrLatino", "Female_HispanicOrLatino">> >>,
       <<"NotHispanicOrLatino_computed",
          <<"Male_NotHispanicOrLatino", "Female_NotHispanicOrLatino">> >> >>

\* cols_map.py _county_2010_2020_dict: derived column -> constituent columns, in dict order.
county_2010_2020_dict ==
    << <<"WhiteAloneNotHispanicOrLatino_computed",
          <<"Male_WhiteAloneNotHispanicOrLatino", "Female_WhiteAloneNotHispanicOrLatino">> >>,
       <<"NotHispanicOrLatino_BlackOrAfricanAmericanAlone_computed",
          <<"Male_NotHispanicOrLatino_BlackOrAfricanAmericanAlone",
          "Female_NotHispanicOrLatino_BlackOrAfricanAmericanAlone">> >>,
       <<"NotHispanicOrLatino_AmericanIndianAndAlaskaNativeAlone_computed",
          <<"Male_NotHispanicOrLatino_AmericanIndianAndAlaskaNativeAlone",
          "Female_NotHispanicOrLatino_AmericanIndianAndAlaskaNativeAlone">> >>,
       <<"NotHispanicOrLatino_AsianAlone_computed",
          <<"Male_NotHispanicOrLatino_AsianAlone", "Female_NotHispanicOrLatino_AsianAlone">> >>,
       <<"NotHispanicOrLatino_NativeHawaiianAndOtherPacificIslanderAlone_computed",
          <<"Male_NotHispanicOrLatino_NativeHawaiianAndOtherPacificIslanderAlone",
          "Female_NotHispanicOrLatino_NativeHawaiianAndOtherPacificIslanderAlone">> >>,
       <<"NotHispanicOrLatino_TwoOrMoreRaces_computed",
          <<"Male_NotHispanicOrLatino_TwoOrMoreRaces", "Female_NotHispanicOrLatino_TwoOrMoreRaces">> >>,
       <<"NotHispanicOrLatino_WhiteAloneOrInCombinationWithOneOrMoreOtherRaces_computed",
          <<"Male_NotHispanicOrLatino_WhiteAloneOrInCombinationWithOneOrMoreOtherRaces",
          "Female_NotHispanicOrLatino_WhiteAloneOrInCombinationWithOneOrMoreOtherRaces">> >>,
       <<"NotHispanicOrLatino_BlackOrAfricanAmericanAloneOrInCombinationWithOneOrMoreOtherRaces_computed",
          <<"Male_NotHispanicOrLatino_BlackOrAfricanAmericanAloneOrInCombinationWithOneOrMoreOtherRaces",
          "Female_NotHispanicOrLatino_BlackOrAfricanAmericanAloneOrInCombinationWithOneOrMoreOtherRaces">> >>,
       <<"NotHispanicOrLatino_AmericanIndianAndAlaskaNativeAloneOrInCombinationWithOneOrMoreOtherRaces_computed",
          <<"Male_NotHispanicOrLatino_AmericanIndianAndAlaskaNativeAloneOrInCombinationWithOneOrMoreOtherRaces",
          "Female_NotHispanicOrLatino_AmericanIndianAndAlaskaNativeAloneOrInCombinationWithOneOrMoreOtherRaces">> >>,
       <<"NotHispanicOrLatino_AsianAloneOrInCombinationWithOneOrMoreOtherRaces_computed",
          <<"Male_NotHispanicOrLatino_AsianAloneOrInCombinationWithOneOrMoreOtherRaces",
          "Female_NotHispanicOrLatino_AsianAloneOrInCombinationWithOneOrMoreOtherRaces">> >>,
       <<"NotHispanicOrLatino_NativeHawaiianAndOtherPacificIslanderAloneOrInCombinationWithOneOrMoreOtherRaces_computed",
          <<"Male_NotHispanicOrLatino_NativeHawaiianAndOtherPacificIslanderAloneOrInCombinationWithOneOrMoreOtherRaces",
          "Female_NotHispanicOrLatino_NativeHawaiianAndOtherPacificIslanderAloneOrInCombinationWithOneOrMoreOtherRaces">> >>,
       <<"HispanicOrLatino_WhiteAlone_computed",
          <<"Male_HispanicOrLatino_WhiteAlone", "Female_HispanicOrLatino_WhiteAlone">> >>,
       <<"HispanicOrLatino_BlackOrAfricanAmericanAlone_computed",
          <<"Male_HispanicOrLatino_BlackOrAfricanAmericanAlone",
          "Female_HispanicOrLatino_BlackOrAfricanAmericanAlone">> >>,
       <<"HispanicOrLatino_AmericanIndianAndAlaskaNativeAlone_computed",
          <<"Male_HispanicOrLatino_AmericanIndianAndAlaskaNativeAlone",
          "Female_HispanicOrLatino_AmericanIndianAndAlaskaNativeAlone">> >>,
       <<"HispanicOrLatino_AsianAlone_computed",
          <<"Male_HispanicOrLatino_AsianAlone", "Female_HispanicOrLatino_AsianAlone">> >>,
       <<"HispanicOrLatino_NativeHawaiianAndOtherPacificIslanderAlone_computed",
          <<"Male_HispanicOrLatino_NativeHawaiianAndOtherPacificIslanderAlone",
          "Female_HispanicOrLatino_NativeHawaiianAndOtherPacificIslanderAlone">> >>,
       <<"HispanicOrLatino_TwoOrMoreRaces_computed",
          <<"Male_HispanicOrLatino_TwoOrMoreRaces", "Female_HispanicOrLatino_TwoOrMoreRaces">> >>,
       <<"HispanicOrLatino_WhiteAloneOrInCombinationWithOneOrMoreOtherRaces_computed",
          <<"Male_HispanicOrLatino_WhiteAloneOrInCombinationWithOneOrMoreOtherRaces",
          "Female_HispanicOrLatino_WhiteAloneOrInCombinationWithOneOrMoreOtherRaces">> >>,
       <<"HispanicOrLatino_BlackOrAfricanAmericanAloneOrInCombinationWithOneOrMoreOtherRaces_computed",
          <<"Male_HispanicOrLatino_BlackOrAfricanAmericanAloneOrInCombinationWithOneOrMoreOtherRaces",
          "Female_HispanicOrLatino_BlackOrAfricanAmericanAloneOrInCombinationWithOneOrMoreOtherRaces">> >>,
       <<"HispanicOrLatino_AmericanIndianAndAlaskaNativeAloneOrInCombinationWithOneOrMoreOtherRaces_computed",
          <<"Male_HispanicOrLatino_AmericanIndianAndAlaskaNativeAloneOrInCombinationWithOneOrMoreOtherRaces",
          "Female_HispanicOrLatino_AmericanIndianAndAlaskaNativeAloneOrInCombinationWithOneOrMoreOtherRaces">> >>,
       <<"HispanicOrLatino_AsianAloneOrInCombinationWithOneOrMoreOtherRaces_computed",
          <<"Male_HispanicOrLatino_AsianAloneOrInCombinationWithOneOrMoreOtherRaces",
          "Female_HispanicOrLatino_AsianAloneOrInCombinationWithOneOrMoreOtherRaces">> >>,
       <<"HispanicOrLatino_NativeHawaiianAndOtherPacificIslanderAloneOrInCombinationWithOneOrMoreOtherRaces_computed",
          <<"Male_HispanicOrLatino_NativeHawaiianAndOtherPacificIslanderAloneOrInCombinationWithOneOrMoreOtherRaces",
          "Female_HispanicOrLatino_NativeHawaiianAndOtherPacificIslanderAloneOrInCombinationWithOneOrMoreOtherRaces">> >> >>

\* cols_map.py _county_1900_1999_dict: derived column -> constituent columns, in dict order.
county_1900_1999_dict ==
    << <<"NotHispanicOrLatino_White_computed",
          <<"Male_NotHispanicOrLatino_White", "Female_NotHispanicOrLatino_White">> >>,
       <<"HispanicOrLatino_White_computed",
          <<"Male_HispanicOrLatino_White", "Female_HispanicOrLatino_White">> >>,
       <<"HispanicOrLatino_computed",
          <<"Male_HispanicOrLatino", "Female_HispanicOrLatino">> >> >>

\* cols_map.py _state_1980_1989_dict: derived column -> constituent columns, in dict order.
state_1980_1989_dict ==
    << <<"NotHispanicOrLatino_Black_computed",
          <<"Female_NotHispanicOrLatino_Black", "Male_NotHispanicOrLatino_Black">> >>,
       <<"NotHispanicOrLatino_White_computed",
          <<"Female_NotHispanicOrLatino_White", "Male_NotHispanicOrLatino_White">> >>,
       <<"NotHispanicOrLatino_AmericanIndianAndAlaskaNativeAlone_computed",
          <<"Female_NotHispanicOrLatino_AmericanIndianAndAlaskaNativeAlone",
          "Male_NotHispanicOrLatino_AmericanIndianAndAlaskaNativeAlone">> >>,
       <<"NotHispanicOrLatino_AsianOrPacificIslander_computed",
          <<"Female_NotHispanicOrLatino_AsianOrPacificIslander",
          "Male_NotHispanicOrLatino_AsianOrPacificIslander">> >>,
       <<"Female_NotHispanicOrLatino_computed",
          <<"Female_NotHispanicOrLatino_Black", "Female_NotHispanicOrLatino_White",
          "Female_NotHispanicOrLatino_AmericanIndianAndAlaskaNativeAlone",
          "Female_NotHispanicOrLatino_AsianOrPacificIslander">> >>,
       <<"Male_NotHispanicOrLatino_computed",
          <<"Male_NotHispanicOrLatino_Black", "Male_NotHispanicOrLatino_White",
          "Male_NotHispanicOrLatino_AmericanIndianAndAlaskaNativeAlone",
          "Male_NotHispanicOrLatino_AsianOrPacificIslander">> >>,
       <<"HispanicOrLatino_Black_computed",
          <<"Female_HispanicOrLatino_Black", "Male_HispanicOrLatino_Black">> >>,
       <<"HispanicOrLatino_White_computed",
          <<"Female_HispanicOrLatino_White", "Male_HispanicOrLatino_White">> >>,
       <<"HispanicOrLatino_AmericanIndianAndAlaskaNativeAlone_computed",
          <<"Female_HispanicOrLatino_AmericanIndianAndAlaskaNativeAlone",
          "Male_HispanicOrLatino_AmericanIndianAndAlaskaNativeAlone">> >>,
       <<"HispanicOrLatino_AsianOrPacificIslander_computed",
          <<"Female_HispanicOrLatino_AsianOrPacificIslander",
          "Male_HispanicOrLatino_AsianOrPacificIslander">> >>,
       <<"Female_HispanicOrLatino_computed",
          <<"Female_HispanicOrLatino_Black", "Female_HispanicOrLatino_White",
          "Female_HispanicOrLatino_AmericanIndianAndAlaskaNativeAlone",
          "Female_HispanicOrLatino_AsianOrPacificIslander">> >>,
       <<"Male_HispanicOrLatino_computed",
          <<"Male_HispanicOrLatino_Black", "Male_HispanicOrLatino_White",
          "Male_HispanicOrLatino_AmericanIndianAndAlaskaNativeAlone",
          "Male_HispanicOrLatino_AsianOrPacificIslander">> >> >>

\* cols_map.py _state_1990_1999_dict: derived column -> constituent columns, in dict order.
state_1990_1999_dict ==
    << <<"Male_NotHispanicOrLatino_computed",
          <<"Male_WhiteAloneNotHispanicOrLatino", "Male_NotHispanicOrLatino_Black",
          "Male_NotHispanicOrLatino_AmericanIndianAndAlaskaNativeAlone",
          "Male_NotHispanicOrLatino_AsianOrPacificIslander">> >>,
       <<"Female_NotHispanicOrLatino_computed",
          <<"Female_WhiteAloneNotHispanicOrLatino", "Female_NotHispanicOrLatino_Black",
          "Female_NotHispanicOrLatino_AmericanIndianAndAlaskaNativeAlone",
          "Female_NotHispanicOrLatino_AsianOrPacificIslander">> >>,
       <<"Male_HispanicOrLatino_computed",
          <<"Male_HispanicOrLatino_WhiteAlone", "Male_HispanicOrLatino_Black",
          "Male_HispanicOrLatino_AmericanIndianAndAlaskaNativeAlone",
          "Male_HispanicOrLatino_AsianOrPacificIslander">> >>,
       <<"Female_HispanicOrLatino_computed",
          <<"Female_HispanicOrLatino_WhiteAlone", "Female_HispanicOrLatino_Black",
          "Female_HispanicOrLatino_AmericanIndianAndAlaskaNativeAlone",
          "Female_HispanicOrLatino_AsianOrPacificIslander">> >>,
       <<"WhiteAloneNotHispanicOrLatino_computed",
          <<"Male_WhiteAloneNotHispanicOrLatino", "Female_WhiteAloneNotHispanicOrLatino">> >>,
       <<"NotHispanicOrLatino_Black_computed",
          <<"Male_NotHispanicOrLatino_Black", "Female_NotHispanicOrLatino_Black">> >>,
       <<"HispanicOrLatino_WhiteAlone_computed",
          <<"Male_HispanicOrLatino_WhiteAlone", "Female_HispanicOrLatino_WhiteAlone">> >>,
       <<"HispanicOrLatino_Black_computed",
          <<"Male_HispanicOrLatino_Black", "Female_HispanicOrLatino_Black">> >>,
       <<"NotHispanicOrLatino_AmericanIndianAndAlaskaNativeAlone_computed",
          <<"Male_NotHispanicOrLatino_AmericanIndianAndAlaskaNativeAlone",
          "Female_NotHispanicOrLatino_AmericanIndianAndAlaskaNativeAlone">> >>,
       <<"HispanicOrLatino_AmericanIndianAndAlaskaNativeAlone_computed",
          <<"Male_HispanicOrLatino_AmericanIndianAndAlaskaNativeAlone",
          "Female_HispanicOrLatino_AmericanIndianAndAlaskaNativeAlone">> >>,
       <<"NotHispanicOrLatino_AsianOrPacificIslander_computed",
          <<"Male_HispanicOrLatino_AsianOrPacificIslander",
          "Female_HispanicOrLatino_AsianOrPacificIslander">> >>,
       <<"HispanicOrLatino_AsianOrPacificIslander_computed",
          <<"Male_HispanicOrLatino_AsianOrPacificIslander",
          "Female_HispanicOrLatino_AsianOrPacificIslander">> >>,
       <<"HispanicOrLatino_computed",
          <<"Male_HispanicOrLatino_WhiteAlone", "Male_HispanicOrLatino_Black",
          "Male_HispanicOrLatino_AmericanIndianAndAlaskaNativeAlone",
          "Male_HispanicOrLatino_AsianOrPacificIslander", "Female_HispanicOrLatino_WhiteAlone",
          "Female_HispanicOrLatino_Black",
          "Female_HispanicOrLatino_AmericanIndianAndAlaskaNativeAlone",
          "Female_HispanicOrLatino_AsianOrPacificIslander">> >>,
       <<"NotHispanicOrLatino_computed",
          <<"Male_WhiteAloneNotHispanicOrLatino", "Male_NotHispanicOrLatino_Black",
          "Male_NotHispanicOrLatino_AmericanIndianAndAlaskaNativeAlone",
          "Male_NotHispanicOrLatino_AsianOrPacificIslander",
          "Female_WhiteAloneNotHispanicOrLatino", "Female_NotHispanicOrLatino_Black",
          "Female_NotHispanicOrLatino_AmericanIndianAndAlaskaNativeAlone",
          "Female_NotHispanicOrLatino_AsianOrPacificIslander">> >> >>

-----------------------------------------------------------------------------
(* cols_map.py: the lookup the processors import *)

DictKeys(d) == List([ i \in DOMAIN d |-> d[i][1] ])
HasKey(d, k) == \E i \in DOMAIN d : d[i][1] = k
\* d[k]
DictGet(d, k) == d[CHOOSE i \in DOMAIN d : d[i][1] = k][2]

\* a variant of the header map without the YEAR entry
cols_dict_without_year == SelectSeq(cols_dict, LAMBDA entry : entry[1] # "YEAR")

\* cols_map.get_cols_dict()
get_cols_dict == cols_dict

\* cols_map._get_mapper_cols_dict(mapper): the table a processor asks for by name.
get_mapper_cols_dict(mapper) ==
    CASE mapper = "header_mappers"               -> get_cols_dict
      [] mapper = "nationals_1980_1999_hispanic" -> nationals_1980_1999_hispanic_cols
      [] mapper = "nationals_1980_1999_derived"  -> nationals_1980_1999_derived_cols
      [] mapper = "nationals_2000_2009"          -> nationals_2000_2009_dict
      [] mapper = "nationals_2010_2021"          -> nationals_2010_2021_dict
      [] mapper = "state_1980_1989"              -> state_1980_1989_dict
      [] mapper = "state_1990_1999"              -> state_1990_1999_dict
      [] mapper = "state_2010_2020_hispanic"     -> state_2010_2020_hispanic_dict
      [] mapper = "state_2010_2020_total"        -> state_2010_2020_total_dict
      [] mapper = "county_1900_1999"             -> county_1900_1999_dict
      [] mapper = "county_2000_2009"             -> county_2000_2009_dict
      [] mapper = "county_2010_2020"             -> county_2010_2020_dict

-----------------------------------------------------------------------------
(* pandas: a DataFrame is [cols: list of column names, rows: list of rows],  *)
(* a row being the list of its cells in column order.  A call that raises    *)
(* is [raised |-> TRUE, error |-> the exception].                            *)

\* name = value, then the statements after it: f at the value e
With(e, f(_)) == f(e)

Raise(e) == [ raised |-> TRUE, error |-> e ]
Frame(cols, rows) == [ raised |-> FALSE, cols |-> cols, rows |-> rows ]

HasCols(df, names) == \A i \in DOMAIN names : \E j \in DOMAIN df.cols : df.cols[j] = names[i]
\* the cell of row r in column name (column names are distinct)
Cell(df, r, name) ==
    r[CHOOSE j \in DOMAIN df.cols : df.cols[j] = name]

\* data_df[name] = f(row): overwrites the column when it exists, appends it otherwise.
SetCol(df, name, f(_)) ==
    IF \E j \in DOMAIN df.cols : df.cols[j] = name
    THEN [ df EXCEPT !.rows = List([ i \in DOMAIN df.rows |->
              List([ j \in DOMAIN df.cols |->
                  IF df.cols[j] = name THEN f(df.rows[i]) ELSE df.rows[i][j] ]) ]) ]
    ELSE [ df EXCEPT !.cols = Append(df.cols, name),
                     !.rows = List([ i \in DOMAIN df.rows |->
                                       Append(df.rows[i], f(df.rows[i])) ]) ]

\* data_df[names]: the listed columns in the listed order; KeyError when one is missing.
Select(df, names) ==
    IF ~HasCols(df, names) THEN Raise("KeyError")
    ELSE Frame(names, List([ i \in DOMAIN df.rows |->
                          List([ j \in DOMAIN names |-> Cell(df, df.rows[i], names[j]) ]) ]))

\* pd.melt(frame, id_vars, value_vars, var_name, value_name): one row per value
\* column and frame row, value column by value column.  It raises KeyError when an
\* id or value column is not in the frame; a column listed as id and as value is
\* selected twice and the per-column arrays then differ in shape (ValueError).
melt(frame, id_vars, value_vars, var_name, value_name) ==
    IF ~HasCols(frame, id_vars) \/ ~HasCols(frame, value_vars) THEN Raise("KeyError")
    ELSE IF Range(id_vars) \cap Range(value_vars) # {} THEN Raise("ValueError")
    ELSE LET N == Len(frame.rows)
             n == N * Len(value_vars)
         IN  Frame(id_vars \o << var_name, value_name >>,
                   List([ k \in 1 .. n |->
                       LET v == value_vars[((k - 1) \div N) + 1]
                           r == frame.rows[((k - 1) % N) + 1]
                       IN  [ j \in DOMAIN id_vars |-> Cell(frame, r, id_vars[j]) ]
                             \o << v, Cell(frame, r, v) >> ]))

-----------------------------------------------------------------------------
(* pep_by_asrh/preprocess.py: helpers *)

\* a variant of the row sum that leaves the first listed column out
SumOfColsButFirst(df, r, sv) == SumSeq([ j \in 1 .. Len(sv) - 1 |-> Cell(df, r, sv[j + 1]) ])

\* _derive_cols: data_df[dsv] = data_df.loc[:, sv].sum(axis=1) for every entry, in
\* dict order; .loc raises KeyError when a listed column is missing.
SumOfCols(df, r, sv) == SumSeq([ j \in DOMAIN sv |-> Cell(df, r, sv[j]) ])

RECURSIVE derive_from(_, _, _)
derive_from(data_df, derived_cols, i) ==
    IF i > Len(derived_cols) THEN data_df
    ELSE LET dsv == derived_cols[i][1]
             sv  == derived_cols[i][2]
         IN  IF ~HasCols(data_df, sv) THEN Raise("KeyError")
             ELSE derive_from(SetCol(data_df, dsv, LAMBDA r : SumOfCols(data_df, r, sv)),
                              derived_cols, i + 1)

derive_cols(data_df, derived_cols) == derive_from(data_df, derived_cols, 1)

\* _get_age_grp
get_age_grp(age_grp) ==
    IF age_grp = 0 THEN ""
    ELSE IF age_grp = 18 THEN "85OrMore"
    ELSE ToString(5 * (age_grp - 1)) \o "To" \o ToString(5 * age_grp - 1)

\* _get_age_grp_county_2000_2009
get_age_grp_county_2000_2009(age_grp) ==
    IF age_grp = 0 THEN "0"
    ELSE IF age_grp = 1 THEN "1To4"
    ELSE IF age_grp = 18 THEN "85OrMore"
    ELSE ToString(5 * (age_grp - 1)) \o "To" \o ToString(5 * age_grp - 1)

\* str(desc) inside an f-string: a missing value prints as nan.
DescStr(desc) == IF desc = NaN THEN "nan" ELSE desc

\* _create_sv: age is PyInt(n) or PyStr(s); only the ints 85 and 100 get OrMoreYears.
create_sv(desc, age) ==
    IF age \in { PyInt(100), PyInt(85) }
    THEN "Count_Person_" \o Format(age) \o "OrMoreYears_" \o DescStr(desc)
    ELSE "Count_Person_" \o Format(age) \o "Years_" \o DescStr(desc)

\* _add_measurement_method, the Measurement_Method it derives from the SV name:
\* the last "_" piece, replaced by CensusPEPSurvey unless it starts with computed.
measurement_method(sv) ==
    LET last == SplitLast(sv, "_")
        step == IF StartsWith(last, "computed") THEN last ELSE "dcs:CensusPEPSurvey"
    IN  Replace(step, "computed", "dcs:dcAggregate/CensusPEPSurvey")

\* _add_measurement_method, the SV name it leaves: "_computed" removed.
strip_computed(sv) == Replace(sv, "_computed", "")

\* _add_measurement_method on a frame: adds tgt_col, rewrites src_col.
add_measurement_method(data_df, src_col, tgt_col) ==
    With(SetCol(data_df, tgt_col, LAMBDA r : measurement_method(Cell(data_df, r, src_col))),
         LAMBDA withMM :
             SetCol(withMM, src_col, LAMBDA r : strip_computed(Cell(withMM, r, src_col))))

final_cols == << "Year", "Location", "SV", "Measurement_Method", "Count_Person" >>
\* the column labels 0, 1, .. n-1 pandas gives a table read with header=None,
\* written as text
IntLabels(n) == List([ i \in 1 .. n |-> ToString(i - 1) ])

-----------------------------------------------------------------------------
(* The input directory: the files process() may be handed, by path.  Their     *)
(* layouts are the ones the processors read: the national and county CSV files *)
(* carry the dataset headers that cols_dict lists.                             *)

MaxFiles == 2
MaxRuns == 2

\* UNIVERSE, MONTH, YEAR, AGE, TOT_POP .. HNAC_FEMALE, HBAC_FEMALE
NationalHeader == List([ i \in 1 .. 77 |-> cols_dict[i][1] ])
\* SUMLEV, STATE, COUNTY, STNAME, CTYNAME, YEAR, AGEGRP, TOT_POP .. HBAC_FEMALE
CountyHeader ==
    << "SUMLEV", "STATE", "COUNTY", "STNAME", "CTYNAME", "YEAR", "AGEGRP" >>
        \o [ i \in 1 .. 73 |-> cols_dict[i + 4][1] ]

\* one record of a national file: every population column holds v
NationalRow(month, year, age, v) == << 0, month, year, age >> \o [ i \in 1 .. 73 |-> v ]
\* one record of a county file
CountyRow(state, county, year, agegrp, v) ==
    << 50, state, county, "Alabama", "Autauga County", year, agegrp >> \o [ i \in 1 .. 73 |-> v ]

\* one record of the 1980-1989 state file: the code column and 18 age-group counts
StateRow(code, v) == << code >> \o [ i \in 1 .. 18 |-> v + (i % 2) ]

\* st-est00int-alldata: REGION .. AGEGRP, the base, the estimates, the 2010 columns
State2000Header ==
    << "REGION", "DIVISION", "STATE", "NAME", "SEX", "ORIGIN", "RACE", "AGEGRP",
       "ESTIMATESBASE2000" >>
        \o [ i \in 1 .. 10 |-> "POPESTIMATE" \o ToString(1999 + i) ]
        \o << "CENSUS2010POP", "POPESTIMATE2010" >>
State2000Row(state, sex, origin, race, agegrp, v) ==
    << 4, 9, state, "California", sex, origin, race, agegrp >> \o [ i \in 1 .. 13 |-> v ]

\* SC-EST2020-ALLDATA6
State2010Header ==
    << "SUMLEV", "REGION", "DIVISION", "STATE", "NAME", "SEX", "ORIGIN", "RACE", "AGE",
       "CENSUS2010POP", "ESTIMATESBASE2010" >>
        \o [ i \in 1 .. 10 |-> "POPESTIMATE" \o ToString(2009 + i) ]
        \o << "POPESTIMATE042020", "POPESTIMATE2020" >>
State2010Row(state, sex, origin, race, age, v) ==
    << 40, 4, 9, state, "California", sex, origin, race, age >> \o [ i \in 1 .. 14 |-> v ]

\* one line of a 1990-1999 county file, as its numeric tokens
CasrhLine(year, fips, cat, v) == << year, fips, cat >> \o [ i \in 1 .. 18 |-> v ]

FS ==
    [ p \in {} |-> << >> ]
    @@ ( "ip_data/us-est00int-alldata.csv" :>
           Frame(NationalHeader, << NationalRow(7, 2009, 85, 3), NationalRow(7, 2010, 0, 4),
                                    NationalRow(4, 2009, 0, 5), NationalRow(7, 2009, 999, 9) >>) )
    @@ ( "ip_data/NC-EST2021-ALLDATA-R-File02.csv" :>
           Frame(NationalHeader, << NationalRow(7, 2010, 85, 2), NationalRow(7, 2010, 100, 1),
                                    NationalRow(4, 2010, 0, 6) >>) )
    @@ ( "ip_data/NC-EST2021-ALLDATA-R-File04.csv" :>
           Frame(NationalHeader, << NationalRow(7, 2011, 85, 2) >>) )
    @@ ( "ip_data/NC-EST2020-ALLDATA-R-File02.csv" :>
           Frame(NationalHeader, << NationalRow(7, 2010, 85, 7) >>) )
    @@ ( "ip_data/co-est00int-alldata-01.csv" :>
           Frame(CountyHeader, << CountyRow(1, 1, 2, 0, 1), CountyRow(1, 1, 11, 18, 2),
                                  CountyRow(1, 1, 12, 1, 3), CountyRow(1, 1, 3, 99, 4) >>) )
    @@ ( "ip_data/CC-EST2020-ALLDATA-01.csv" :>
           Frame(CountyHeader, << CountyRow(1, 1, 3, 1, 1), CountyRow(1, 3, 14, 18, 2),
                                  CountyRow(1, 1, 13, 1, 3), CountyRow(1, 1, 3, 0, 4) >>) )
    @@ ( "ip_data/st_int_asrh.txt" :>
           Frame(IntLabels(19), << StateRow(6211, 3), StateRow(6212, 4), StateRow(6231, 5),
                                   StateRow(6232, 6), StateRow(6291, 7), StateRow(48251, 1) >>) )
    @@ ( "ip_data/e8081CQI.TXT" :>
           Frame(IntLabels(24), << << 2, 780, 0 >> \o [ i \in 1 .. 21 |-> 3 ],
                                   << 2, 480, 0 >> \o [ i \in 1 .. 21 |-> 4 ],
                                   << 2, 780100 >> \o [ i \in 1 .. 22 |-> 1 ] >>) )
    @@ ( "ip_data/sasrh90.txt" :>
           Frame(IntLabels(19), << << 1990, 1, 0 >> \o [ i \in 1 .. 16 |-> 2 ],
                                   << 1990, 2, 85 >> \o [ i \in 1 .. 16 |-> 1 ] >>) )
    @@ ( "ip_data/st-est00int-alldata.csv" :>
           Frame(State2000Header, << State2000Row(6, 1, 1, 1, 1, 3), State2000Row(6, 0, 1, 0, 1, 9),
                                     State2000Row(0, 1, 1, 1, 1, 5) >>) )
    @@ ( "ip_data/SC-EST2020-ALLDATA6.csv" :>
           Frame(State2010Header, << State2010Row(6, 1, 1, 1, 0, 3), State2010Row(6, 2, 2, 1, 85, 2),
                                     State2010Row(6, 0, 0, 1, 0, 5) >>) )
    @@ ( "ip_data/casrh9091.txt" :>
           Frame(<< >>, << CasrhLine("1990", "1001", "1", "3"), CasrhLine("1990", "1001", "2", "4"),
                           << "1990", "1001" >>,
                           CasrhLine("1990", "1001", "4", "2"), CasrhLine("1990", "1001", "5", "6"),
                           CasrhLine("1990", "1001", "11", "1"), CasrhLine("1990", "1001", "12", "2"),
                           CasrhLine("1990", "1003", "12", "7") >>) )
    @@ ( "ip_data/casrh9293.txt" :>
           Frame(<< >>, << CasrhLine("1992", "1001", "1", "3"),
                           CasrhLine("1992", "1001", "2", "4") >>) )
    @@ ( "ip_data/README.md" :> Frame(<< >>, << >>) )

Paths == DOMAIN FS

\* int(s) for a string of decimal digits.
RECURSIVE ToInt(_)
ToInt(s) ==
    IF Len(s) = 0 THEN 0
    ELSE 10 * ToInt(SubSeq(s, 1, Len(s) - 1))
         + (CHOOSE d \in 0 .. 9 : ToString(d) = SubSeq(s, Len(s), Len(s)))

\* str.isnumeric() on ASCII text: non-empty, decimal digits only.
IsNumeric(s) ==
    Len(s) > 0 /\ \A i \in 1 .. Len(s) : \E d \in 0 .. 9 : ToString(d) = SubSeq(s, i, i)

\* data_df = None
NoneDf == [ none |-> TRUE ]
IsNone(x) == "none" \in DOMAIN x

\* Series.astype("int", errors="ignore") on a column of tagged cells: every cell is
\* cast when all of them cast, the column is left as it is otherwise.
CastCol(data_df, col) ==
    LET cell(r) == Cell(data_df, r, col)
        castable == \A i \in DOMAIN data_df.rows :
                       cell(data_df.rows[i])[1] = "int" \/ IsNumeric(cell(data_df.rows[i])[2])
    IN  IF ~castable THEN data_df
        ELSE SetCol(data_df, col,
                    LAMBDA r : IF cell(r)[1] = "int" THEN cell(r) ELSE PyInt(ToInt(cell(r)[2])))

\* a variant of _convert_to_int that turns None into an empty table
convert_to_int_or_empty(data_df) ==
    IF IsNone(data_df) THEN Frame(<< "Year", "Location", "SV", "Measurement_Method",
                                     "Count_Person" >>, << >>)
    ELSE IF ~HasCols(data_df, << "Year", "Count_Person" >>) THEN data_df
    ELSE CastCol(CastCol(data_df, "Year"), "Count_Person")

\* _convert_to_int: data_df.columns of None raises AttributeError; of the five output
\* columns Year and Count_Person are the ones that can hold digit strings.
convert_to_int(data_df) ==
    IF IsNone(data_df) THEN Raise("AttributeError")
    ELSE IF ~HasCols(data_df, << "Year", "Count_Person" >>) THEN data_df
    ELSE CastCol(CastCol(data_df, "Year"), "Count_Person")

\* cols[idx] = cols_mapper.get(val, val): a header the map lacks keeps its name.
rename_get(cols) ==
    With(get_mapper_cols_dict("header_mappers"), LAMBDA cols_mapper :
        List([ idx \in DOMAIN cols |->
            IF HasKey(cols_mapper, cols[idx]) THEN DictGet(cols_mapper, cols[idx]) ELSE cols[idx] ]))

\* data_df.columns.map(cols_mapper): a header the map lacks becomes NaN.
rename_map(cols) ==
    With(get_mapper_cols_dict("header_mappers"), LAMBDA cols_mapper :
        List([ idx \in DOMAIN cols |->
            IF HasKey(cols_mapper, cols[idx]) THEN DictGet(cols_mapper, cols[idx]) ELSE NaN ]))

\* [val for val in cols if "Hispanic" in val]
HispanicCols(cols) == SelectSeq(cols, LAMBDA val : Contains(val, "Hispanic"))

\* The Year and Count_Person cells of a returned frame are Python values: ints
\* (PyInt) or strs (PyStr).
Ints(df, col) == SetCol(df, col, LAMBDA r : PyInt(Cell(df, r, col)))
Strs(df, col) == SetCol(df, col, LAMBDA r : PyStr(Cell(df, r, col)))
\* data_df[final_cols] of a frame whose Year and Count_Person are ints
Returned(df) == Select(Ints(Ints(df, "Year"), "Count_Person"), final_cols)

\* _load_data_df: the table pandas reads from the file at path (after header and
\* skip_rows handling); FS is the content of the input directory.
load_data_df(path) == FS[path]

\* rows of df satisfying keep
Filter(df, keep(_)) == [ df EXCEPT !.rows = SelectSeq(df.rows, keep) ]

\* _process_nationals_2000_2009
process_nationals_2000_2009(file_path) ==
    With(load_data_df(file_path), LAMBDA data_df :
    IF ~HasCols(data_df, << "MONTH", "AGE", "YEAR" >>) THEN Raise("KeyError")
    ELSE
    With(Filter(data_df, LAMBDA r : /\ Cell(data_df, r, "MONTH") = 7
                                    /\ Cell(data_df, r, "AGE") # 999
                                    /\ Cell(data_df, r, "YEAR") # 2010), LAMBDA kept :
    With(rename_get(kept.cols), LAMBDA cols :
    With(get_mapper_cols_dict("nationals_2000_2009"), LAMBDA derived_cols :
    With(derive_cols([ kept EXCEPT !.cols = cols ], derived_cols), LAMBDA derived :
    IF derived.raised THEN derived
    ELSE
    With(melt(derived, << "Year", "Age" >>, HispanicCols(cols \o DictKeys(derived_cols)),
              "SV", "Count_Person"), LAMBDA melted :
    IF melted.raised THEN melted
    ELSE
    With(SetCol(melted, "SV", LAMBDA r :
             create_sv(Cell(melted, r, "SV"), PyInt(Cell(melted, r, "Age")))), LAMBDA sv :
    Returned(add_measurement_method(SetCol(sv, "Location", LAMBDA r : "country/USA"),
                                    "SV", "Measurement_Method")))))))))

\* _process_nationals_2010_2021
process_nationals_2010_2021(file_path) ==
    With(load_data_df(file_path), LAMBDA data_df :
    IF ~HasCols(data_df, << "AGE", "MONTH" >>) THEN Raise("KeyError")
    ELSE
    With(Filter(data_df, LAMBDA r : /\ Cell(data_df, r, "AGE") # 999
                                    /\ Cell(data_df, r, "MONTH") = 7), LAMBDA kept :
    With(rename_map(kept.cols), LAMBDA cols :
    With(get_mapper_cols_dict("nationals_2010_2021"), LAMBDA derived_cols :
    With(derive_cols([ kept EXCEPT !.cols = cols ], derived_cols), LAMBDA derived :
    IF derived.raised THEN derived
    \* "Hispanic" in col, col a float NaN
    ELSE IF \E i \in DOMAIN cols : cols[i] = NaN THEN Raise("TypeError")
    ELSE
    With(<< "Year", "Age" >> \o HispanicCols(cols \o DictKeys(derived_cols)), LAMBDA cols2 :
    With(Select(derived, cols2), LAMBDA picked :
    IF picked.raised THEN picked
    ELSE
    With(melt(picked, << "Year", "Age" >>, SubSeq(cols2, 3, Len(cols2)),
              "SV", "Count_Person"), LAMBDA melted :
    IF melted.raised THEN melted
    ELSE
    With(SetCol(melted, "SV", LAMBDA r :
             Replace(create_sv(Cell(melted, r, "SV"), PyInt(Cell(melted, r, "Age"))),
                     "85OrMore", "85")), LAMBDA sv :
    Returned(add_measurement_method(SetCol(sv, "Location", LAMBDA r : "country/USA"),
                                    "SV", "Measurement_Method")))))))))))

\* "geoId/" + STATE padded to 2 + COUNTY padded to 3
CountyGeoId(df, r) ==
    "geoId/" \o PadLeft(ToString(Cell(df, r, "STATE")), 2, "0")
             \o PadLeft(ToString(Cell(df, r, "COUNTY")), 3, "0")

\* _process_county_2000_2009
process_county_2000_2009(file_path) ==
    With(load_data_df(file_path), LAMBDA data_df :
    IF ~HasCols(data_df, << "YEAR", "AGEGRP" >>) THEN Raise("KeyError")
    ELSE
    With(Filter(data_df, LAMBDA r : /\ Cell(data_df, r, "YEAR") \notin { 1, 12, 13 }
                                    /\ Cell(data_df, r, "AGEGRP") # 99), LAMBDA kept :
    With(SetCol(kept, "YEAR", LAMBDA r : 1998 + Cell(kept, r, "YEAR")), LAMBDA year :
    With(rename_get(year.cols), LAMBDA cols :
    With([ year EXCEPT !.cols = cols ], LAMBDA named :
    IF ~HasCols(named, << "STATE", "COUNTY" >>) THEN Raise("KeyError")
    ELSE
    With(get_mapper_cols_dict("county_2000_2009"), LAMBDA derived_cols :
    With(derive_cols(SetCol(named, "Location", LAMBDA r : CountyGeoId(named, r)),
                     derived_cols), LAMBDA derived :
    IF derived.raised THEN derived
    ELSE IF ~HasCols(derived, << "AGEGRP" >>) THEN Raise("KeyError")
    ELSE
    With(melt(SetCol(derived, "Age", LAMBDA r :
                  get_age_grp_county_2000_2009(Cell(derived, r, "AGEGRP"))),
              << "Year", "Location", "Age" >>, HispanicCols(cols \o DictKeys(derived_cols)),
              "SV", "Count_Person"), LAMBDA melted :
    IF melted.raised THEN melted
    ELSE
    Returned(add_measurement_method(
                 SetCol(melted, "SV", LAMBDA r :
                     create_sv(Cell(melted, r, "SV"), PyStr(Cell(melted, r, "Age")))),
                 "SV", "Measurement_Method"))))))))))

\* _process_county_2010_2020
process_county_2010_2020(file_path) ==
    With(load_data_df(file_path), LAMBDA data_df :
    IF ~HasCols(data_df, << "YEAR", "AGEGRP" >>) THEN Raise("KeyError")
    ELSE
    With(Filter(data_df, LAMBDA r : /\ Cell(data_df, r, "YEAR") \notin { 1, 2, 13 }
                                    /\ Cell(data_df, r, "AGEGRP") # 0), LAMBDA kept :
    With(SetCol(kept, "YEAR", LAMBDA r :
             2007 + ToInt(Replace(ToString(Cell(kept, r, "YEAR")), "14", "13"))),
         LAMBDA year :
    With(rename_get(year.cols), LAMBDA cols :
    With([ year EXCEPT !.cols = cols ], LAMBDA named :
    IF ~HasCols(named, << "STATE", "COUNTY" >>) THEN Raise("KeyError")
    ELSE
    With(get_mapper_cols_dict("county_2010_2020"), LAMBDA derived_cols :
    With(derive_cols(SetCol(named, "Location", LAMBDA r : CountyGeoId(named, r)),
                     derived_cols), LAMBDA derived :
    IF derived.raised THEN derived
    ELSE IF ~HasCols(derived, << "AGEGRP" >>) THEN Raise("KeyError")
    ELSE
    With(melt(SetCol(derived, "Age", LAMBDA r :
                  Replace(get_age_grp(Cell(derived, r, "AGEGRP")), "85To89", "85")),
              << "Year", "Location", "Age" >>, HispanicCols(cols \o DictKeys(derived_cols)),
              "SV", "Count_Person"), LAMBDA melted :
    IF melted.raised THEN melted
    ELSE
    Returned(add_measurement_method(
                 SetCol(melted, "SV", LAMBDA r :
                     create_sv(Cell(melted, r, "SV"), PyStr(Cell(melted, r, "Age")))),
                 "SV", "Measurement_Method"))))))))))
-----------------------------------------------------------------------------
(* pep_by_asrh/preprocess.py: _process_state_1980_1989 *)

\* the while loop building pop_cols: "0To4", "5To9", .. "80To84", "85OrMore"
pop_cols ==
    List([ i \in 1 .. 18 |->
             IF i = 18 THEN "85OrMore"
             ELSE ToString(5 * (i - 1)) \o "To" \o ToString(5 * i - 1) ])

gender_mapper == << << "1", "Male" >>, << "2", "Female" >> >>
race_mapper ==
    << << "1", "WhiteAloneNotHispanicOrLatino" >>,
       << "2", "NotHispanicOrLatino_BlackOrAfricanAmericanAlone" >>,
       << "3", "NotHispanicOrLatino_AmericanIndianAndAlaskaNativeAlone" >>,
       << "4", "NotHispanicOrLatino_AsianOrPacificIslander" >>,
       << "5", "HispanicOrLatino_WhiteAlone" >>,
       << "6", "HispanicOrLatino_BlackOrAfricanAmericanAlone" >>,
       << "7", "HispanicOrLatino_AmericanIndianAndAlaskaNativeAlone" >>,
       << "8", "HispanicOrLatino_AsianOrPacificIslander" >> >>

\* Series.map(mapper): a value the mapper lacks becomes NaN
MapOrNaN(mapper, v) == IF HasKey(mapper, v) THEN DictGet(mapper, v) ELSE NaN

\* data_df["Sex"] + "_" + data_df["Race"]: NaN when either side is NaN
SexRace(sex, race) == IF sex = NaN \/ race = NaN THEN NaN ELSE sex \o "_" \o race

\* lines 373-412: the frame Year, Location, SV, pop_cols built from the raw records,
\* a raw record being its code (column 0) followed by the 18 population counts
StateFrame(data_df) ==
    Frame(<< "Year", "Location", "SV" >> \o pop_cols,
          List([ i \in DOMAIN data_df.rows |->
            LET r    == data_df.rows[i]
                code == PadLeft(ToString(r[1]), 5, "0")
                Race == MapOrNaN(race_mapper, SubSeq(code, 4, 4))
                Sex  == MapOrNaN(gender_mapper, SubSeq(code, 5, 5))
            IN  << "198" \o SubSeq(code, 3, 3), "geoId/" \o SubSeq(code, 1, 2),
                   SexRace(Sex, Race) >> \o SubSeq(r, 2, 19) ]))

\* str < str, character by character in code-point order, over the characters
\* that names, codes and paths are written with
Alphabet == "-./0123456789:ABCDEFGHIJKLMNOPQRSTUVWXYZ_abcdefghijklmnopqrstuvwxyz"
CharOrd(c) == CHOOSE i \in 1 .. Len(Alphabet) : SubSeq(Alphabet, i, i) = c

RECURSIVE StrLess(_, _)
StrLess(a, b) ==
    IF Len(b) = 0 THEN FALSE
    ELSE IF Len(a) = 0 THEN TRUE
    ELSE IF SubSeq(a, 1, 1) # SubSeq(b, 1, 1)
         THEN CharOrd(SubSeq(a, 1, 1)) < CharOrd(SubSeq(b, 1, 1))
         ELSE StrLess(SubSeq(a, 2, Len(a)), SubSeq(b, 2, Len(b)))

\* the order groupby puts the (Year, Location) keys in
KeyLeq(x, y) == x = y \/ StrLess(x[1], y[1]) \/ (x[1] = y[1] /\ StrLess(x[2], y[2]))

RECURSIVE SortedKeys(_)
SortedKeys(S) ==
    IF S = {} THEN << >>
    ELSE LET k == CHOOSE x \in S : \A y \in S : KeyLeq(x, y)
         IN  << k >> \o SortedKeys(S \ { k })

\* data_df[data_df["SV"].isin(sv)], SV set to dsv, .groupby(["Year", "Location",
\* "SV"]).sum().reset_index(): the frame's columns are Year, Location, SV, pop_cols
GroupSum(data_df, dsv, sv) ==
    LET picked == SelectSeq(data_df.rows, LAMBDA r : r[3] # NaN /\ r[3] \in Range(sv))
        keys   == SortedKeys({ << picked[i][1], picked[i][2] >> : i \in DOMAIN picked })
    IN  List([ g \in DOMAIN keys |->
          LET members == SelectSeq(picked, LAMBDA r : << r[1], r[2] >> = keys[g])
          IN  << keys[g][1], keys[g][2], dsv >>
                \o [ a \in 1 .. 18 |-> SumSeq([ m \in DOMAIN members |-> members[m][a + 3] ]) ] ])

\* lines 413-419: the loop over derived_cols.items(), each entry appending its rows
RECURSIVE state_derive_from(_, _, _)
state_derive_from(data_df, derived_cols, i) ==
    IF i > Len(derived_cols) THEN data_df
    ELSE state_derive_from(
             [ data_df EXCEPT !.rows = @ \o GroupSum(data_df, derived_cols[i][1],
                                                     derived_cols[i][2]) ],
             derived_cols, i + 1)

\* _process_state_1980_1989 from the loaded table on
state_1980_1989(data_df) ==
    With(state_derive_from(StateFrame(data_df), get_mapper_cols_dict("state_1980_1989"), 1),
         LAMBDA derived :
    With(melt(derived, << "Year", "Location", "SV" >>, pop_cols, "Age", "Count_Person"),
         LAMBDA melted :
    With(SetCol(melted, "SV", LAMBDA r :
             create_sv(Cell(melted, r, "SV"), PyStr(Cell(melted, r, "Age")))), LAMBDA sv :
    Select(Ints(Strs(add_measurement_method(sv, "SV", "Measurement_Method"), "Year"),
                "Count_Person"),
           final_cols))))

\* _process_state_1980_1989
process_state_1980_1989(file_path) == state_1980_1989(load_data_df(file_path))
-----------------------------------------------------------------------------
(* pep_by_asrh/preprocess.py: _process_county_1990_1999 *)

sv_mapper ==
    << << "1", "Male_WhiteAloneNotHispanicOrLatino" >>,
       << "2", "Female_WhiteAloneNotHispanicOrLatino" >>,
       << "3", "Male_HispanicOrLatino_WhiteAlone" >>,
       << "4", "Female_HispanicOrLatino_WhiteAlone" >>,
       << "5", "Male_BlackOrAfricanAmericanAlone" >>,
       << "6", "Female_BlackOrAfricanAmericanAlone" >>,
       << "7", "Male_AmericanIndianAndAlaskaNativeAlone" >>,
       << "8", "Female_AmericanIndianAndAlaskaNativeAlone" >>,
       << "9", "Male_AsianOrPacificIslander" >>,
       << "10", "Female_AsianOrPacificIslander" >>,
       << "11", "Male_HispanicOrLatino" >>,
       << "12", "Female_HispanicOrLatino" >> >>

\* the locals of the read loop before the first line
read_start ==
    [ final_data |-> << >>, skipped_rows |-> << >>, data |-> << >>,
      prev_origin_race_cat |-> None, curr_origin_race_cat |-> None ]

\* a variant of the iteration that leaves prev_origin_race_cat as it is when a row
\* is moved to skipped_rows
read_line_keep_prev(st, lines) ==
    IF Len(lines) # 21 THEN st
    ELSE With(Append(st.data, lines), LAMBDA appended :
         With(IF st.prev_origin_race_cat = None THEN lines[3] ELSE st.prev_origin_race_cat,
              LAMBDA prev :
         With(IF st.prev_origin_race_cat # None /\ st.curr_origin_race_cat = None
              THEN lines[3] ELSE st.curr_origin_race_cat, LAMBDA curr :
         IF Len(appended) # 2
         THEN [ st EXCEPT !.data = appended, !.prev_origin_race_cat = prev,
                          !.curr_origin_race_cat = curr ]
         ELSE IF << prev, curr >> \in { << "1", "2" >>, << "3", "4" >>, << "11", "12" >> }
         THEN [ final_data |-> st.final_data \o appended, skipped_rows |-> st.skipped_rows,
                data |-> << >>, prev_origin_race_cat |-> None,
                curr_origin_race_cat |-> None ]
         ELSE [ final_data |-> st.final_data,
                skipped_rows |-> Append(st.skipped_rows, Head(appended)),
                data |-> Tail(appended), prev_origin_race_cat |-> prev,
                curr_origin_race_cat |-> None ])))

\* one iteration of the loop over file.readlines(): lines is the list of the
\* numeric tokens of the line; a line of 21 tokens is appended to data, and two
\* rows in data are moved to final_data when their categories pair, else the
\* older one is moved to skipped_rows
read_line(st, lines) ==
    IF Len(lines) # 21 THEN st
    ELSE With(Append(st.data, lines), LAMBDA appended :
         With(IF st.prev_origin_race_cat = None THEN lines[3] ELSE st.prev_origin_race_cat,
              LAMBDA prev :
         With(IF st.prev_origin_race_cat # None /\ st.curr_origin_race_cat = None
              THEN lines[3] ELSE st.curr_origin_race_cat, LAMBDA curr :
         IF Len(appended) # 2
         THEN [ st EXCEPT !.data = appended, !.prev_origin_race_cat = prev,
                          !.curr_origin_race_cat = curr ]
         ELSE IF << prev, curr >> \in { << "1", "2" >>, << "3", "4" >>, << "11", "12" >> }
         THEN [ final_data |-> st.final_data \o appended, skipped_rows |-> st.skipped_rows,
                data |-> << >>, prev_origin_race_cat |-> None,
                curr_origin_race_cat |-> None ]
         ELSE [ final_data |-> st.final_data,
                skipped_rows |-> Append(st.skipped_rows, Head(appended)),
                data |-> Tail(appended), prev_origin_race_cat |-> curr,
                curr_origin_race_cat |-> None ])))

\* the loop over file.readlines() from line i on
RECURSIVE read_pairs(_, _, _)
read_pairs(lines, i, st) ==
    IF i > Len(lines) THEN st ELSE read_pairs(lines, i + 1, read_line(st, lines[i]))

\* rows whose SV is not one of "5" .. "10", SV mapped through sv_mapper
CountyRows(rows) ==
    LET kept == SelectSeq(rows, LAMBDA r : r[3] \notin { "5", "6", "7", "8", "9", "10" })
    IN  List([ i \in DOMAIN kept |-> [ kept[i] EXCEPT ![3] = MapOrNaN(sv_mapper, @) ] ])

\* pd.to_numeric on the population columns of a row
NumericPops(r) == SubSeq(r, 1, 3) \o [ a \in 1 .. 18 |-> ToInt(r[a + 3]) ]
\* the population cells of a row as Python values
TagPops(r, Tag(_)) == SubSeq(r, 1, 3) \o [ a \in 1 .. 18 |-> Tag(r[a + 3]) ]

\* the loop over derived_cols.items(): pd.concat([data_df, data])
RECURSIVE county_derive_from(_, _, _)
county_derive_from(data_df, derived_cols, i) ==
    IF i > Len(derived_cols) THEN data_df
    ELSE county_derive_from(
             [ data_df EXCEPT !.rows = @ \o GroupSum(data_df, derived_cols[i][1],
                                                     derived_cols[i][2]) ],
             derived_cols, i + 1)

\* the columns given to the frames built from the lines read
county_1990_1999_cols == << "Year", "Location", "SV" >> \o pop_cols

\* _process_county_1990_1999 after the read loop, from final_data and skipped_rows
county_1990_1999(read) ==
    \* .columns = 21 names on a frame built from an empty list
    IF read.final_data = << >> \/ read.skipped_rows = << >> THEN Raise("ValueError")
    ELSE
    With(CountyRows(read.final_data), LAMBDA paired :
    With(Frame(county_1990_1999_cols,
               List([ i \in DOMAIN paired |-> NumericPops(paired[i]) ])), LAMBDA data_df :
    With(county_derive_from(data_df, get_mapper_cols_dict("county_1900_1999"), 1),
         LAMBDA derived :
    With(CountyRows(read.skipped_rows), LAMBDA skipped_data_df :
    With(List([ i \in DOMAIN derived.rows |-> TagPops(derived.rows[i], PyInt) ])
           \o List([ i \in DOMAIN skipped_data_df |-> TagPops(skipped_data_df[i], PyStr) ]),
         LAMBDA all :
    \* dropna()
    With(melt(Frame(county_1990_1999_cols, SelectSeq(all, LAMBDA r : r[3] # NaN)),
              << "Year", "Location", "SV" >>, pop_cols, "Age", "Count_Person"),
         LAMBDA melted :
    With(SetCol(melted, "SV", LAMBDA r :
             create_sv(Cell(melted, r, "SV"), PyStr(Cell(melted, r, "Age")))), LAMBDA sv :
    With(SetCol(sv, "Location", LAMBDA r :
             "geoId/" \o PadLeft(Cell(sv, r, "Location"), 5, "0")), LAMBDA loc :
    Select(Strs(add_measurement_method(loc, "SV", "Measurement_Method"), "Year"),
           final_cols)))))))))

\* _process_county_1990_1999
process_county_1990_1999(file_path) ==
    county_1990_1999(read_pairs(FS[file_path].rows, 1, read_start))
-----------------------------------------------------------------------------
(* pep_by_asrh/preprocess.py: the remaining processors *)

\* os.path.basename
Basename(path) == SplitLast(path, "/")

nationals_1980_1989_cols ==
    << "Year", "Age", "Total_Population", "Total_Male_Population",
       "Total_Female_Population", "Male_WhiteAlone_Population",
       "Female_WhiteAlone_Population",
       "Male_BlackOrAfricanAmericanAlone_Population",
       "Female_BlackOrAfricanAmericanAlone_Population",
       "Male_AmericanIndianAndAlaskaNativeAlone",
       "Female_AmericanIndianAndAlaskaNativeAlone",
       "Male_AsianOrPacificIslander", "Female_AsianOrPacificIslander",
       "Male_HispanicOrLatino", "Female_HispanicOrLatino",
       "Male_WhiteAloneNotHispanicOrLatino",
       "Female_WhiteAloneNotHispanicOrLatino",
       "Male_NotHispanicOrLatino_BlackOrAfricanAmericanAlone",
       "Female_NotHispanicOrLatino_BlackOrAfricanAmericanAlone",
       "Male_NotHispanicOrLatino_AmericanIndianAndAlaskaNativeAlone",
       "Female_NotHispanicOrLatino_AmericanIndianAndAlaskaNativeAlone",
       "Male_NotHispanicOrLatino_AsianOrPacificIslander",
       "Female_NotHispanicOrLatino_AsianOrPacificIslander" >>

\* the loop over hispanic_cols.items(): dsv = sv[0] - sum(sv[1:]), by negating
\* sv[1:], summing data_df.loc[:, sv] and negating back
RECURSIVE hispanic_from(_, _, _)
hispanic_from(data_df, hispanic_cols, i) ==
    IF i > Len(hispanic_cols) THEN data_df
    ELSE LET dsv == hispanic_cols[i][1]
             sv  == hispanic_cols[i][2]
         IN  IF ~HasCols(data_df, Tail(sv)) \/ ~HasCols(data_df, sv) THEN Raise("KeyError")
             ELSE hispanic_from(
                      SetCol(data_df, dsv, LAMBDA r :
                          Cell(data_df, r, Head(sv)) - SumOfCols(data_df, r, Tail(sv))),
                      hispanic_cols, i + 1)

\* _process_nationals_1980_1989
process_nationals_1980_1989(file_path) ==
    With(load_data_df(file_path), LAMBDA data_df :
    With(SubSeq(Basename(file_path), 2, 3), LAMBDA yrtxt :
    \* int("7" + basename[1:3])
    IF ~IsNumeric(yrtxt) THEN Raise("ValueError")
    ELSE IF Len(data_df.cols) < 2 THEN Raise("KeyError")
    \* data_df.columns = cols, 23 names
    ELSE IF Len(data_df.cols) # 24 THEN Raise("ValueError")
    ELSE
    With(ToInt("7" \o yrtxt), LAMBDA yr :
    With(ToInt("7" \o yrtxt \o "100"), LAMBDA yr_100 :
    With(SelectSeq(data_df.rows, LAMBDA r : r[2] = yr), LAMBDA rows :
    With(SelectSeq(data_df.rows, LAMBDA r : r[2] = yr_100), LAMBDA rows100 :
    With(Frame(nationals_1980_1989_cols,
               List([ i \in DOMAIN rows |-> Tail(rows[i]) ])
                 \o List([ i \in DOMAIN rows100 |->
                             << yr, 100 >> \o SubSeq(rows100[i], 3, 23) ])), LAMBDA named :
    With(get_mapper_cols_dict("nationals_1980_1999_hispanic"), LAMBDA hispanic_cols :
    With(get_mapper_cols_dict("nationals_1980_1999_derived"), LAMBDA derived_cols :
    With(hispanic_from(SetCol(named, "Year", LAMBDA r :
                           With(ToString(Cell(named, r, "Year")), LAMBDA y :
                                "19" \o SubSeq(y, Len(y) - 1, Len(y)))),
                       hispanic_cols, 1), LAMBDA hisp :
    IF hisp.raised THEN hisp
    ELSE
    With(derive_cols(hisp, derived_cols), LAMBDA derived :
    IF derived.raised THEN derived
    ELSE
    With(melt(derived, << "Year", "Age" >>,
              HispanicCols(nationals_1980_1989_cols \o DictKeys(hispanic_cols)
                             \o DictKeys(derived_cols)),
              "SV", "Count_Person"), LAMBDA melted :
    IF melted.raised THEN melted
    ELSE
    With(SetCol(melted, "SV", LAMBDA r :
             Replace(create_sv(Cell(melted, r, "SV"), PyInt(Cell(melted, r, "Age"))),
                     "85OrMore", "85")), LAMBDA sv :
    Select(Ints(Strs(add_measurement_method(SetCol(sv, "Location", LAMBDA r : "country/USA"),
                                            "SV", "Measurement_Method"),
                     "Year"),
                "Count_Person"),
           final_cols))))))))))))))

state_1990_1999_cols ==
    << "Year", "Location", "Age", "Male_WhiteAloneNotHispanicOrLatino",
       "Female_WhiteAloneNotHispanicOrLatino",
       "Male_NotHispanicOrLatino_BlackOrAfricanAmericanAlone",
       "Female_NotHispanicOrLatino_BlackOrAfricanAmericanAlone",
       "Male_NotHispanicOrLatino_AmericanIndianAndAlaskaNativeAlone",
       "Female_NotHispanicOrLatino_AmericanIndianAndAlaskaNativeAlone",
       "Male_NotHispanicOrLatino_AsianOrPacificIslander",
       "Female_NotHispanicOrLatino_AsianOrPacificIslander",
       "Male_HispanicOrLatino_WhiteAlone",
       "Female_HispanicOrLatino_WhiteAlone",
       "Male_HispanicOrLatino_BlackOrAfricanAmericanAlone",
       "Female_HispanicOrLatino_BlackOrAfricanAmericanAlone",
       "Male_HispanicOrLatino_AmericanIndianAndAlaskaNativeAlone",
       "Female_HispanicOrLatino_AmericanIndianAndAlaskaNativeAlone",
       "Male_HispanicOrLatino_AsianOrPacificIslander",
       "Female_HispanicOrLatino_AsianOrPacificIslander" >>

\* _process_state_1990_1999 from line 451 on, for the table _load_data_df returned
state_1990_1999(data_df) ==
    \* data_df.columns = cols, 19 names
    IF Len(data_df.cols) # Len(state_1990_1999_cols) THEN Raise("ValueError")
    ELSE
    With(get_mapper_cols_dict("state_1990_1999"), LAMBDA derived_cols :
    With(derive_cols([ data_df EXCEPT !.cols = state_1990_1999_cols ], derived_cols),
         LAMBDA derived :
    IF derived.raised THEN derived
    ELSE
    With(melt(SetCol(derived, "Location", LAMBDA r :
                  "geoId/" \o PadLeft(ToString(Cell(derived, r, "Location")), 2, "0")),
              << "Year", "Location", "Age" >>,
              HispanicCols(state_1990_1999_cols \o DictKeys(derived_cols)),
              "SV", "Count_Person"), LAMBDA melted :
    IF melted.raised THEN melted
    ELSE
    Returned(add_measurement_method(
                 SetCol(melted, "SV", LAMBDA r :
                     create_sv(Cell(melted, r, "SV"), PyInt(Cell(melted, r, "Age")))),
                 "SV", "Measurement_Method")))))

\* _process_state_1990_1999
process_state_1990_1999(file_path) == state_1990_1999(load_data_df(file_path))

\* [col for col in cols if col.startswith("POPESTIMATE")]
PopEstimateCols(cols) == SelectSeq(cols, LAMBDA col : StartsWith(col, "POPESTIMATE"))

\* data_df.drop(columns=[name])
Drop(df, name) ==
    With(SelectSeq(df.cols, LAMBDA c : c # name), LAMBDA keep :
        Frame(keep, List([ i \in DOMAIN df.rows |->
                             List([ j \in DOMAIN keep |-> Cell(df, df.rows[i], keep[j]) ]) ])))

state_2000_2010_gender_mapper == << << 0, "empty" >>, << 1, "Male" >>, << 2, "Female" >> >>
origin_mapper == << << 1, "NotHispanicOrLatino" >>, << 2, "HispanicOrLatino" >> >>
state_2000_2010_race_mapper ==
    << << 0, "empty" >>, << 1, "WhiteAlone" >>, << 2, "BlackOrAfricanAmericanAlone" >>,
       << 3, "AmericanIndianAndAlaskaNativeAlone" >>, << 4, "AsianAlone" >>,
       << 5, "NativeHawaiianAndOtherPacificIslanderAlone" >>, << 6, "TwoOrMoreRaces" >> >>

\* SEX + "_" + ORIGIN + "_" + RACE, NaN when a part is NaN, with WhiteAlone reordered
SexOriginRace(sex, origin, race) ==
    IF sex = NaN \/ origin = NaN \/ race = NaN THEN NaN
    ELSE Replace(sex \o "_" \o origin \o "_" \o race,
                 "NotHispanicOrLatino_WhiteAlone", "WhiteAloneNotHispanicOrLatino")

\* Series.str.replace on a value that may be NaN
ReplaceOrNaN(s, old, new) == IF s = NaN THEN NaN ELSE Replace(s, old, new)

\* the rows of data_df of one ORIGIN, SEX and RACE, the total age group left out
pick(data_df, origin, sex, race) ==
    SelectSeq(data_df.rows, LAMBDA r : /\ Cell(data_df, r, "ORIGIN") = origin
                                       /\ Cell(data_df, r, "SEX") = sex
                                       /\ Cell(data_df, r, "RACE") = race
                                       /\ Cell(data_df, r, "AGEGRP") # 0)

\* the derived rows of one origin: the total, the races, the sexes
of_origin(data_df, origin) ==
    pick(data_df, origin, 0, 0)
      \o Flatten([ race \in 1 .. 6 |-> pick(data_df, origin, 0, race) ])
      \o pick(data_df, origin, 1, 0) \o pick(data_df, origin, 2, 0)

\* _process_state_2000_2010 (the index column reset_index adds is not a POPESTIMATE
\* column and is left out)
process_state_2000_2010(file_path) ==
    With(load_data_df(file_path), LAMBDA loaded :
    IF ~HasCols(loaded, << "POPESTIMATE2010" >>) THEN Raise("KeyError")
    ELSE IF ~HasCols(loaded, << "STATE", "ORIGIN", "SEX", "RACE", "AGEGRP" >>)
    THEN Raise("KeyError")
    ELSE
    With(Drop(loaded, "POPESTIMATE2010"), LAMBDA dropped :
    With(Filter(dropped, LAMBDA r : Cell(dropped, r, "STATE") # 0), LAMBDA data_df :
    With(SelectSeq(data_df.rows, LAMBDA r : /\ Cell(data_df, r, "SEX") # 0
                                            /\ Cell(data_df, r, "RACE") # 0
                                            /\ Cell(data_df, r, "ORIGIN") # 0
                                            /\ Cell(data_df, r, "AGEGRP") # 0), LAMBDA detail :
    With([ data_df EXCEPT !.rows = detail \o of_origin(data_df, 1) \o of_origin(data_df, 2) ],
         LAMBDA all :
    With(SetCol(all, "SV", LAMBDA r :
             ReplaceOrNaN(ReplaceOrNaN(
                 SexOriginRace(
                     MapOrNaN(state_2000_2010_gender_mapper, Cell(all, r, "SEX")),
                     MapOrNaN(origin_mapper, Cell(all, r, "ORIGIN")),
                     MapOrNaN(state_2000_2010_race_mapper, Cell(all, r, "RACE"))),
                 "empty_", ""), "_empty", "")), LAMBDA sv :
    With(SetCol(sv, "Location", LAMBDA r :
             "geoId/" \o PadLeft(ToString(Cell(sv, r, "STATE")), 2, "0")), LAMBDA loc :
    With(SetCol(loc, "Age", LAMBDA r : get_age_grp(Cell(loc, r, "AGEGRP"))), LAMBDA age :
    With(SetCol(age, "SV", LAMBDA r :
             create_sv(Cell(age, r, "SV"), PyStr(Cell(age, r, "Age")))), LAMBDA named :
    With(<< "Location", "SV" >> \o PopEstimateCols(loc.cols), LAMBDA cols :
    With(Select(named, cols), LAMBDA picked :
    With(List([ i \in DOMAIN cols |-> Replace(cols[i], "POPESTIMATE", "") ]), LAMBDA renamed :
    \* value_vars=cols names Location and SV, which are the id_vars
    With(melt([ picked EXCEPT !.cols = renamed ], << "Location", "SV" >>, renamed,
              "Year", "Count_Person"), LAMBDA melted :
    IF melted.raised THEN melted
    ELSE
    Select(Ints(Strs(add_measurement_method(
                         Select(melted, << "Year", "Location", "SV", "Count_Person" >>),
                         "SV", "Measurement_Method"),
                     "Year"),
                "Count_Person"),
           final_cols))))))))))))))

state_2010_2020_gender_mapper == << << 1, "Male" >>, << 2, "Female" >> >>
state_2010_2020_race_mapper ==
    << << 1, "WhiteAlone" >>, << 2, "BlackOrAfricanAmericanAlone" >>,
       << 3, "AmericanIndianAndAlaskaNativeAlone" >>, << 4, "AsianAlone" >>,
       << 5, "NativeHawaiianAndOtherPacificIslanderAlone" >>, << 6, "TwoOrMoreRaces" >> >>

\* the req_cols list built from column_indexes: STATE, SV, AGE, the estimates of
\* 2010 .. 2019 and the estimate of 2020, by position
ReqCols(columns) ==
    << columns[4], columns[24], columns[9] >> \o SubSeq(columns, 12, 21) \o << columns[23] >>

\* _process_state_2010_2020.  The rows the two derivation loops append carry the
\* columns req_cols; the column list handed to pd.melt does not depend on them.
process_state_2010_2020(file_path) ==
    With(load_data_df(file_path), LAMBDA loaded :
    IF ~HasCols(loaded, << "SEX", "ORIGIN", "STATE", "RACE" >>) THEN Raise("KeyError")
    ELSE
    With(Filter(loaded, LAMBDA r : /\ Cell(loaded, r, "SEX") # 0
                                   /\ Cell(loaded, r, "ORIGIN") # 0), LAMBDA data_df :
    With(SetCol(data_df, "STATE", LAMBDA r :
             "geoId/" \o PadLeft(ToString(Cell(data_df, r, "STATE")), 2, "0")), LAMBDA state :
    With(SetCol(state, "SV", LAMBDA r :
             SexOriginRace(
                 MapOrNaN(state_2010_2020_gender_mapper, Cell(state, r, "SEX")),
                 MapOrNaN(origin_mapper, Cell(state, r, "ORIGIN")),
                 MapOrNaN(state_2010_2020_race_mapper, Cell(state, r, "RACE")))), LAMBDA sv :
    IF Len(sv.cols) < 24 THEN Raise("IndexError")
    ELSE
    With(ReqCols(sv.cols), LAMBDA req_cols :
    \* groupby(["STATE", "SV", "AGE"]) and row.AGE
    IF ~HasCols(sv, << "AGE" >>) \/ ~HasCols(Frame(req_cols, << >>), << "STATE", "AGE" >>)
    THEN Raise("KeyError")
    ELSE
    With(Select(SetCol(sv, "SV", LAMBDA r :
                    create_sv(Cell(sv, r, "SV"), PyInt(Cell(sv, r, "AGE")))),
                req_cols), LAMBDA picked :
    With(List([ i \in DOMAIN req_cols |->
                  Replace(Replace(req_cols[i], "POPESTIMATE", ""), "STATE", "Location") ]),
         LAMBDA renamed :
    \* id_vars names Age; the column is AGE
    With(melt([ picked EXCEPT !.cols = renamed ], << "SV", "Location", "Age" >>,
              SubSeq(renamed, 4, Len(renamed)), "Year", "Count_Person"), LAMBDA melted :
    IF melted.raised THEN melted
    ELSE
    Select(Ints(Strs(add_measurement_method(melted, "SV", "Measurement_Method"), "Year"),
                "Count_Person"),
           final_cols)))))))))

\* _derive_nationals: Location set to the country, Count_Person summed per
\* (Year, Location, SV, Measurement_Method), groups in key order
derive_nationals(data_df) ==
    LET keys == { << r[1], r[3], r[4] >> : r \in Range(data_df.rows) }
        KeyLess(x, y) == \/ x[1][2] < y[1][2]
                         \/ x[1] = y[1] /\ StrLess(x[2], y[2])
                         \/ x[1] = y[1] /\ x[2] = y[2] /\ StrLess(x[3], y[3])
        rank(k) == Cardinality({ x \in keys : KeyLess(x, k) })
        sorted == [ i \in 1 .. Cardinality(keys) |-> CHOOSE k \in keys : rank(k) = i - 1 ]
    IN  Frame(final_cols,
              List([ i \in DOMAIN sorted |->
                << sorted[i][1], "country/USA", sorted[i][2], sorted[i][3],
                   PyInt(SumSeq([ j \in DOMAIN data_df.rows |->
                       IF << data_df.rows[j][1], data_df.rows[j][3], data_df.rows[j][4] >>
                            = sorted[i]
                       THEN data_df.rows[j][5][2] ELSE 0 ])) >> ]))
-----------------------------------------------------------------------------
(* pep_by_asrh/preprocess.py: process() *)

\* pd.concat([data_df, nat_data_df], axis=0)
concat(a, b) == [ a EXCEPT !.rows = @ \o b.rows ]

\* lines 1022-1024: the national rows follow the state rows of an sasrh file
with_nationals(file_path, data_df) ==
    IF Contains(file_path, "sasrh") /\ ~data_df.raised
    THEN concat(data_df, derive_nationals(data_df))
    ELSE data_df

\* the if/elif chain of process(): the table of the processor the path selects,
\* None without one
dispatch(file_path) ==
    IF Contains(file_path, "sasr")
    THEN with_nationals(file_path, process_state_1990_1999(file_path))
    ELSE IF Contains(file_path, "st-est00int-alldata") THEN process_state_2000_2010(file_path)
    ELSE IF Contains(file_path, "SC-EST2020-ALLDATA6") THEN process_state_2010_2020(file_path)
    ELSE IF Contains(file_path, "st_int_asrh") THEN process_state_1980_1989(file_path)
    ELSE IF Contains(file_path, "CQI.TXT") THEN process_nationals_1980_1989(file_path)
    ELSE IF Contains(file_path, "us-est00int-alldata") THEN process_nationals_2000_2009(file_path)
    ELSE IF Contains(file_path, "NC-EST") THEN process_nationals_2010_2021(file_path)
    ELSE IF Contains(file_path, "casrh") THEN process_county_1990_1999(file_path)
    ELSE IF Contains(file_path, "co-est00int-alldata") THEN process_county_2000_2009(file_path)
    ELSE IF Contains(file_path, "CC-EST2020") THEN process_county_2010_2020(file_path)
    ELSE NoneDf

\* the loop body up to the write: the table to append, or the exception raised
process_file(file_path) ==
    With(dispatch(file_path), LAMBDA data_df :
         IF ~IsNone(data_df) /\ data_df.raised THEN data_df ELSE convert_to_int(data_df))

\* DataFrame.to_csv(header=False, index=False): one line of text fields per row
CsvLines(df) ==
    List([ i \in DOMAIN df.rows |->
        List([ j \in DOMAIN df.cols |->
            IF df.cols[j] \in { "Year", "Count_Person" } THEN Format(df.rows[i][j])
            ELSE df.rows[i][j] ]) ])

\* the patterns of the if/elif chain
Patterns ==
    << "sasr", "st-est00int-alldata", "SC-EST2020-ALLDATA6", "st_int_asrh", "CQI.TXT",
       "us-est00int-alldata", "NC-EST", "casrh", "co-est00int-alldata", "CC-EST2020" >>
HasPattern(file_path) == \E i \in DOMAIN Patterns : Contains(file_path, Patterns[i])

\* a variant of the header write that opens the file in mode "a"
to_csv_header_append(file) == file \o << final_cols >>

\* the empty five-column frame's to_csv(cleaned_csv_file_path, index=False): mode "w",
\* whatever the file held is replaced by the header line
to_csv_header(file) == << final_cols >>
\* a variant of the append that writes the rows of the table twice
to_csv_append_twice(file, data_df) == file \o CsvLines(data_df) \o CsvLines(data_df)

\* data_df.to_csv(cleaned_csv_file_path, mode="a", header=False, index=False)
to_csv_append(file, data_df) == file \o CsvLines(data_df)
\* process_file depends on the path alone: its result for every file of the directory
Processed == [ file_path \in Paths |-> process_file(file_path) ]

\* the variables of the other specifications, unused here
dcIdle  == dc_df = NoneDf /\ dc_table = None /\ dc_out = NoneDf
hdIdle  == hd_proc = None /\ hd_cols = << >> /\ hd_out = << >>
stIdle  == st_file = << >> /\ st_out = NoneDf
fbiIdle == fbi_pc = None /\ reader = << >> /\ reader_pos = 0 /\ writer = << >>
             /\ statvars = << >>
mainIdle == /\ main_pc = None /\ gen_statvar_mcf = FALSE /\ xls_files = << >>
            /\ csv_files = << >> /\ output_dir = << >> /\ main_statvars = << >>
ctIdle == /\ ct_lines = << >> /\ ct_pos = 0 /\ final_data = << >> /\ data = << >>
          /\ skipped_rows = << >> /\ prev_origin_race_cat = None
          /\ curr_origin_race_cat = None /\ ct_out = NoneDf
mpIdle == /\ mp_pc = None /\ self_input_files = << >> /\ mp_idx = 0 /\ scaling_factor = 1
          /\ self_df = NoneDf /\ cur_df = NoneDf /\ cleaned_csv_file = NoneDf
yrIdle == yr_df = NoneDf /\ yr_out = NoneDf
rtIdle == /\ rt_txt = NoneDf /\ rt_preprocess = NoneDf /\ rt_xlsx = NoneDf
          /\ rt_download = NoneDf
snIdle == sn_path = None /\ sn_file = << >> /\ sn_pc = None /\ sn_csv = << >>
extIdle == mainIdle /\ ctIdle /\ mpIdle /\ yrIdle /\ rtIdle /\ snIdle
pepIdle == /\ pc = None /\ input_files = << >> /\ file_idx = 0 /\ cleaned_csv = << >>
           /\ mcf_file = [ run |-> 0, svs |-> {} ] /\ tmcf_file = [ run |-> 0 ]
           /\ sv_list = << >> /\ run = 0 /\ csv_run1 = << >>

baseIdle == pepIdle /\ dcIdle /\ hdIdle /\ stIdle /\ fbiIdle

InputLists == UNION { [ 1 .. n -> Paths ] : n \in 0 .. MaxFiles }

Init ==
    /\ pc = "idle"
    /\ input_files \in InputLists
    /\ file_idx = 0
    /\ cleaned_csv = << >>
    /\ mcf_file = [ run |-> 0, svs |-> {} ]
    /\ tmcf_file = [ run |-> 0 ]
    /\ sv_list = << >>
    /\ run = 0
    /\ csv_run1 = << >>
    /\ dcIdle /\ hdIdle /\ stIdle /\ fbiIdle /\ extIdle

\* process(), up to the loop: the cleaned CSV is (re)written with the header alone
Start ==
    /\ pc \in { "idle", "done", "raised" }
    /\ run < MaxRuns
    /\ pc' = "loop"
    /\ run' = run + 1
    /\ sv_list' = << >>
    /\ file_idx' = 0
    /\ cleaned_csv' = to_csv_header(cleaned_csv)
    /\ UNCHANGED << input_files, mcf_file, tmcf_file, csv_run1 >>
    /\ UNCHANGED << dcVars, hdVars, stVars, fbiVars, extVars >>

\* one iteration of the loop over input_files
ProcessFile ==
    /\ pc = "loop"
    /\ file_idx < Len(input_files)
    /\ LET data_df == Processed[input_files[file_idx + 1]]
       IN  IF data_df.raised
           THEN /\ pc' = "raised"
                /\ csv_run1' = IF run = 1 THEN cleaned_csv ELSE csv_run1
                /\ UNCHANGED << cleaned_csv, sv_list, file_idx >>
           ELSE /\ cleaned_csv' = to_csv_append(cleaned_csv, data_df)
                /\ sv_list' = sv_list \o [ i \in DOMAIN data_df.rows |->
                                             Cell(data_df, data_df.rows[i], "SV") ]
                /\ file_idx' = file_idx + 1
                /\ UNCHANGED << pc, csv_run1 >>
    /\ UNCHANGED << input_files, mcf_file, tmcf_file, run >>
    /\ UNCHANGED << dcVars, hdVars, stVars, fbiVars, extVars >>

\* after the loop: sv_list is made unique and sorted, the MCF and TMCF are written
Finish ==
    /\ pc = "loop"
    /\ file_idx = Len(input_files)
    /\ pc' = "done"
    /\ mcf_file' = [ run |-> run, svs |-> Range(sv_list) ]
    /\ tmcf_file' = [ run |-> run ]
    /\ csv_run1' = IF run = 1 THEN cleaned_csv ELSE csv_run1
    /\ UNCHANGED << input_files, file_idx, cleaned_csv, sv_list, run >>
    /\ UNCHANGED << dcVars, hdVars, stVars, fbiVars, extVars >>

Next == Start \/ ProcessFile \/ Finish

Spec == Init /\ [][Next]_vars

-----------------------------------------------------------------------------
(* Properties of process() *)

\* what dispatch and process_file give for every file of the directory
Dispatched == [ file_path \in Paths |-> dispatch(file_path) ]
\* the (Year, Location) pairs a file contributes rows for
Coverage ==
    [ file_path \in Paths |->
        LET data_df == Processed[file_path]
        IN  IF data_df.raised THEN {}
            ELSE { << Format(r[1]), r[2] >> : r \in Range(data_df.rows) } ]

DataRows == IF cleaned_csv = << >> THEN << >> ELSE Tail(cleaned_csv)
RowKey(line) == << line[1], line[2], line[3] >>
UniqueKeys == Cardinality({ RowKey(DataRows[i]) : i \in DOMAIN DataRows }) = Len(DataRows)
\* no two of the files handled so far contribute rows for the same (Year, Location)
DisjointCoverage ==
    \A i, j \in 1 .. file_idx :
        i < j => Coverage[input_files[i]] \cap Coverage[input_files[j]] = {}

\* the rows a file contributes have pairwise different (Year, Location, SV)
FileUnique ==
    [ file_path \in Paths |->
        LET data_df == Processed[file_path]
        IN  data_df.raised \/
            Cardinality({ RowKey(line) : line \in Range(CsvLines(data_df)) })
              = Len(data_df.rows) ]

\* C1, as stated: for any list of input files, no two data rows of the cleaned CSV
\* share the same (Year, Location, SV) triple.
C1_UniqueForAnyFileList == UniqueKeys

\* C1, amended: no two data rows of the cleaned CSV share the same (Year, Location,
\* SV) triple whenever no two of the listed files (a file listed twice counts
\* twice) contribute rows for the same (Year, Location) and no listed file
\* contributes two rows with the same triple on its own.
C1_UniqueWhenFilesDisjoint ==
    (DisjointCoverage /\ \A i \in 1 .. file_idx : FileUnique[input_files[i]]) => UniqueKeys

\* two different files with rows have been appended and their coverage is disjoint
C1_TwoDisjointFilesWritten ==
    /\ pc = "done" /\ file_idx = 2 /\ DisjointCoverage
    /\ Coverage[input_files[1]] # {} /\ Coverage[input_files[2]] # {}

\* the rows of the files input_files[1 .. n], as CSV lines
RowsOfFirst(n) == Flatten([ i \in 1 .. n |-> CsvLines(Processed[input_files[i]]) ])

\* C5, as stated: every processor process() dispatches to returns the five columns
\* Year, Location, SV, Measurement_Method, Count_Person in order (so a run stops
\* only at a file no processor is selected for), every line of the cleaned CSV has
\* five fields, and the header is its first line and occurs once.
C5_EveryProcessorReturnsFinalCols ==
    /\ \A i \in DOMAIN input_files :
          LET data_df == Dispatched[input_files[i]]
          IN  ~IsNone(data_df) => ~data_df.raised /\ data_df.cols = final_cols
    /\ pc = "raised" => ~HasPattern(input_files[file_idx + 1])
    /\ \A k \in DOMAIN cleaned_csv : Len(cleaned_csv[k]) = 5
    /\ cleaned_csv # << >> =>
          /\ cleaned_csv[1] = final_cols
          /\ \A k \in 2 .. Len(cleaned_csv) : cleaned_csv[k] # final_cols

\* C9: when the k-th file cannot be processed the run stops there: the files before
\* it were processed, the cleaned CSV holds the header and exactly their rows, the
\* MCF and TMCF are not written by this run, and a run only completes when every
\* file matched a pattern and its processor returned.
C9_RunEndsAtFailingFile ==
    /\ pc = "raised" =>
          /\ Processed[input_files[file_idx + 1]].raised
          /\ \A j \in 1 .. file_idx : ~Processed[input_files[j]].raised
          /\ cleaned_csv = << final_cols >> \o RowsOfFirst(file_idx)
          /\ mcf_file.run # run /\ tmcf_file.run # run
    /\ pc = "done" =>
          \A j \in DOMAIN input_files :
              HasPattern(input_files[j]) /\ ~Dispatched[input_files[j]].raised
    /\ pc = "loop" =>
          \A j \in 1 .. file_idx :
              HasPattern(input_files[j]) /\ ~Dispatched[input_files[j]].raised

\* the second file failed after the first one's rows were written
C9_FailedAtSecondFile ==
    pc = "raised" /\ file_idx = 1 /\ Len(cleaned_csv) > 1

\* C10: a second run with the same input files leaves the cleaned CSV the first
\* run left.
C10_SecondRunLeavesSameCsv ==
    (run >= 2 /\ pc \in { "done", "raised" }) => cleaned_csv = csv_run1

\* a second run has completed and the file holds rows
C10_SecondRunDone == run = 2 /\ pc = "done" /\ Len(cleaned_csv) > 1

-----------------------------------------------------------------------------
(* fbi/hate_crime/table9/preprocess.py: _write_output_csv *)

MaxRecords == 3

\* config['pvs'] of config.json: the label of a record to the property values of
\* its statistical variable, or to "skip"
config_pvs ==
    << << "Total", "skip" >>,
       << "White", "offenderRace=WhiteAlone" >>,
       << "Hispanic or Latino", "offenderEthnicity=HispanicOrLatino" >>,
       << "Under 18", "offenderAge=Years0To17" >> >>

\* config['populationType']['total'] after utils.update_statvars and
\* utils.update_statvar_dcids: the Node (dcid) of the statistical variable with
\* the record's property values
total_statvar(known_offender_key_value) ==
    [ populationType |-> "CriminalIncidents",
      pvs            |-> known_offender_key_value,
      Node           |-> "dcid:Count_CriminalIncidents_" \o known_offender_key_value ]

\* a variant of the lookup that reads a missing label as "skip"
pvs_get_or_skip(pvs, known_offender) ==
    IF HasKey(pvs, known_offender)
    THEN [ raised |-> FALSE, value |-> DictGet(pvs, known_offender) ]
    ELSE [ raised |-> FALSE, value |-> "skip" ]

\* config['pvs'][known_offender]: KeyError when the label is not a key
pvs_lookup(pvs, known_offender) ==
    IF HasKey(pvs, known_offender)
    THEN [ raised |-> FALSE, value |-> DictGet(pvs, known_offender) ]
    ELSE [ raised |-> TRUE, value |-> "KeyError" ]

\* a variant of _write_row that fills Year and Quantity the other way round
write_row_swapped(year, statvar_dcid, quantity) ==
    [ Year |-> quantity, StatVar |-> statvar_dcid, Quantity |-> year ]

\* _write_row: the row handed to writer.writerow
write_row(year, statvar_dcid, quantity) ==
    [ Year |-> year, StatVar |-> statvar_dcid, Quantity |-> quantity ]

\* the records a year's CSV can hold: Year, r/e/a, total
Labels == { "Total", "White", "Under 18", "Multiple races" }
Crimes == { [ Year |-> "2019", rea |-> l, total |-> "12" ] : l \in Labels }
             \cup { [ Year |-> "2020", rea |-> "White", total |-> "7" ] }

FbiInit ==
    /\ fbi_pc = "loop"
    /\ reader \in UNION { [ 1 .. n -> Crimes ] : n \in 0 .. MaxRecords }
    /\ reader_pos = 0
    /\ writer = << >>
    /\ statvars = << >>
    /\ pepIdle /\ dcIdle /\ hdIdle /\ stIdle /\ extIdle

\* one iteration of "for crime in reader"
WriteOutputCsvStep ==
    /\ fbi_pc = "loop"
    /\ reader_pos < Len(reader)
    /\ LET crime == reader[reader_pos + 1]
           known_offender == crime.rea
           known_offender_key_value == pvs_lookup(config_pvs, known_offender)
       IN  IF known_offender_key_value.raised
           THEN /\ fbi_pc' = "raised"
                /\ UNCHANGED << reader_pos, writer, statvars >>
           ELSE IF known_offender_key_value.value = "skip"
           THEN /\ reader_pos' = reader_pos + 1
                /\ UNCHANGED << fbi_pc, writer, statvars >>
           ELSE LET statvar == total_statvar(known_offender_key_value.value)
                IN  /\ writer' = Append(writer,
                                        write_row(crime.Year, statvar.Node, crime.total))
                    /\ statvars' = Append(statvars, statvar)
                    /\ reader_pos' = reader_pos + 1
                    /\ UNCHANGED fbi_pc
    /\ UNCHANGED << reader, pepVars, dcVars, hdVars, stVars, extVars >>

\* the reader is exhausted: return statvars
WriteOutputCsvReturn ==
    /\ fbi_pc = "loop"
    /\ reader_pos = Len(reader)
    /\ fbi_pc' = "returned"
    /\ UNCHANGED << reader, reader_pos, writer, statvars, pepVars, dcVars, hdVars, stVars, extVars >>

FbiNext == WriteOutputCsvStep \/ WriteOutputCsvReturn

FbiSpec == FbiInit /\ [][FbiNext]_vars

\* the records among the first n whose label does not map to "skip", in order
Unskipped(n) ==
    SelectSeq(SubSeq(reader, 1, n),
              LAMBDA crime : HasKey(config_pvs, crime.rea)
                               /\ DictGet(config_pvs, crime.rea) # "skip")

\* the rows expected for the first n records
ExpectedRows(n) ==
    LET kept == Unskipped(n)
    IN  [ i \in DOMAIN kept |->
            [ Year     |-> kept[i].Year,
              StatVar  |-> "dcid:Count_CriminalIncidents_" \o DictGet(config_pvs, kept[i].rea),
              Quantity |-> kept[i].total ] ]

\* C7: the rows written are exactly one row per record whose label maps to
\* something other than "skip", in input order, with that record's Year and total;
\* nothing is written for a record whose label maps to "skip".
C7_OneRowPerUnskippedRecord ==
    /\ writer = ExpectedRows(reader_pos)
    /\ fbi_pc = "returned" => reader_pos = Len(reader)

\* a run over a skipped record and two written ones has returned
C7_ReturnedWithSkipAndRows ==
    /\ fbi_pc = "returned" /\ Len(writer) >= 2
    /\ \E i \in DOMAIN reader : reader[i].rea = "Total"

\* C8: a record whose label is not a key of config['pvs'] ends the run with an
\* exception: the run never goes past it, and no row is written for it or for a
\* later record.
C8_UnknownLabelRaises ==
    /\ \A i \in 1 .. reader_pos : HasKey(config_pvs, reader[i].rea)
    /\ fbi_pc = "raised" =>
          /\ ~HasKey(config_pvs, reader[reader_pos + 1].rea)
          /\ writer = ExpectedRows(reader_pos)
    /\ fbi_pc = "returned" => \A i \in DOMAIN reader : HasKey(config_pvs, reader[i].rea)

\* an unknown label met after a written row and before a further record
C8_RaisedMidway ==
    /\ fbi_pc = "raised" /\ writer # << >>
    /\ reader_pos + 1 < Len(reader)

-----------------------------------------------------------------------------
(* _derive_cols on its own: the derivation tables the processors pass to it, each
   with a table of the layout the processor has at the call *)

MaxVal == 3
MaxRows == 2

\* the column names a processor holds when it calls _derive_cols
LayoutOf(table) ==
    CASE table = "nationals_2000_2009"         -> rename_get(NationalHeader)
      [] table = "nationals_2010_2021"         -> rename_map(NationalHeader)
      [] table = "county_2000_2009"            -> Append(rename_get(CountyHeader), "Location")
      [] table = "county_2010_2020"            -> Append(rename_get(CountyHeader), "Location")
      [] table = "state_1990_1999"             -> state_1990_1999_cols
      [] table = "nationals_1980_1999_derived" ->
             nationals_1980_1989_cols
               \o DictKeys(get_mapper_cols_dict("nationals_1980_1999_hispanic"))

DerivationTables ==
    { "nationals_2000_2009", "nationals_2010_2021", "county_2000_2009", "county_2010_2020",
      "state_1990_1999", "nationals_1980_1999_derived" }

\* a row of n cells with values in 0 .. MaxVal: cell j holds (a * j + b) % (MaxVal + 1)
PatternRow(n, a, b) == List([ j \in 1 .. n |-> (a * j + b) % (MaxVal + 1) ])
PatternRows(n) == { PatternRow(n, a, b) : a \in 0 .. 1, b \in 0 .. MaxVal }

DcFrames(table) ==
    LET cols == LayoutOf(table)
    IN  { Frame(cols, rows) :
            rows \in UNION { [ 1 .. k -> PatternRows(Len(cols)) ] : k \in 1 .. MaxRows } }

DcInit ==
    /\ dc_table \in DerivationTables
    /\ dc_df \in DcFrames(dc_table)
    /\ dc_out = NoneDf
    /\ pepIdle /\ hdIdle /\ stIdle /\ fbiIdle /\ extIdle

\* the call _derive_cols(data_df, derived_cols)
DeriveCols ==
    /\ IsNone(dc_out)
    /\ dc_out' = derive_cols(dc_df, get_mapper_cols_dict(dc_table))
    /\ UNCHANGED << dc_df, dc_table, pepVars, hdVars, stVars, fbiVars, extVars >>

DcNext == DeriveCols

DcSpec == DcInit /\ [][DcNext]_vars

-----------------------------------------------------------------------------
(* the header rename step of the four processors that read a CSV with a header *)

HeaderProcessors ==
    { "nationals_2000_2009", "nationals_2010_2021", "county_2000_2009", "county_2010_2020" }

\* the layout a processor reads and the number of leading columns its filter needs
HeaderLayout(proc) ==
    IF proc \in { "nationals_2000_2009", "nationals_2010_2021" } THEN NationalHeader
    ELSE CountyHeader
NeededCols(proc) ==
    IF proc \in { "nationals_2000_2009", "nationals_2010_2021" } THEN 4 ELSE 7

\* the header of a file holding the first n columns of the layout
HdInit ==
    /\ hd_proc \in HeaderProcessors
    /\ \E n \in NeededCols(hd_proc) .. Len(HeaderLayout(hd_proc)) :
          hd_cols = SubSeq(HeaderLayout(hd_proc), 1, n)
    /\ hd_out = << >>
    /\ pepIdle /\ dcIdle /\ stIdle /\ fbiIdle /\ extIdle

\* cols_mapper.get(val, val) for every column name
RenameGet ==
    /\ hd_out = << >>
    /\ hd_proc # "nationals_2010_2021"
    /\ hd_out' = rename_get(hd_cols)
    /\ UNCHANGED << hd_proc, hd_cols, pepVars, dcVars, stVars, fbiVars, extVars >>

\* data_df.columns.map(cols_mapper)
RenameMap ==
    /\ hd_out = << >>
    /\ hd_proc = "nationals_2010_2021"
    /\ hd_out' = rename_map(hd_cols)
    /\ UNCHANGED << hd_proc, hd_cols, pepVars, dcVars, stVars, fbiVars, extVars >>

HdNext == RenameGet \/ RenameMap

HdSpec == HdInit /\ [][HdNext]_vars

-----------------------------------------------------------------------------
(* _process_state_1980_1989 on its own *)

MaxStateRecords == 3

\* records of a 1980-1989 state file: California 1982 male and female of race 1,
\* male of race 3, a record of race 9, a record of sex 3, and Texas 1985 male of
\* race 5
StateRecords ==
    { StateRow(6211, 3), StateRow(6212, 4), StateRow(6231, 5), StateRow(6291, 7),
      StateRow(6213, 2), StateRow(48551, 1) }

StInit ==
    /\ st_file \in UNION { [ 1 .. n -> StateRecords ] : n \in 1 .. MaxStateRecords }
    /\ st_out = NoneDf
    /\ pepIdle /\ dcIdle /\ hdIdle /\ fbiIdle /\ extIdle

\* the call _process_state_1980_1989(file_path) on a file holding st_file
ProcessState ==
    /\ IsNone(st_out)
    /\ st_out' = state_1980_1989(Frame(IntLabels(19), st_file))
    /\ UNCHANGED << st_file, pepVars, dcVars, hdVars, fbiVars, extVars >>

StNext == ProcessState

StSpec == StInit /\ [][StNext]_vars

\* the Sex_Race names gender_mapper and race_mapper produce
ProducedNames ==
    { SexRace(gender_mapper[g][2], race_mapper[r][2]) :
        g \in DOMAIN gender_mapper, r \in DOMAIN race_mapper }

\* the code of a record, padded
CodeOf(rec) == PadLeft(ToString(rec[1]), 5, "0")
WellFormed(rec) ==
    /\ HasKey(race_mapper, SubSeq(CodeOf(rec), 4, 4))
    /\ HasKey(gender_mapper, SubSeq(CodeOf(rec), 5, 5))

\* the count the output holds for a variable, year, location and age group: the
\* sum over the rows of that key
OutCount(year, location, name, age) ==
    SumSeq([ i \in DOMAIN st_out.rows |->
        IF /\ st_out.rows[i][1] = PyStr(year) /\ st_out.rows[i][2] = location
           /\ st_out.rows[i][3] = create_sv(name, PyStr(age))
        THEN st_out.rows[i][5][2] ELSE 0 ])

\* C3, as stated: every constituent a state_1980_1989 entry lists is a Sex_Race name
\* gender_mapper and race_mapper produce, and for each (Year, Location, age
\* bucket) the derived variable's count is the sum of the counts of the
\* constituents its entry lists.
C3_DerivedSumsListedConstituents ==
    ~IsNone(st_out) =>
        \A e \in DOMAIN state_1980_1989_dict :
            /\ \A c \in Range(state_1980_1989_dict[e][2]) : c \in ProducedNames
            /\ \A i \in DOMAIN st_file, a \in DOMAIN pop_cols :
                  LET year     == "198" \o SubSeq(CodeOf(st_file[i]), 3, 3)
                      location == "geoId/" \o SubSeq(CodeOf(st_file[i]), 1, 2)
                      listed   == state_1980_1989_dict[e][2]
                  IN  OutCount(year, location,
                               strip_computed(state_1980_1989_dict[e][1]), pop_cols[a])
                        = SumSeq([ c \in DOMAIN listed |->
                                     OutCount(year, location, listed[c], pop_cols[a]) ])

\* C6, as stated: a record whose race code is not in 1..8 or whose sex code is not
\* in 1..2 yields no output row: every row that is not a derived one comes from a
\* well-formed record, and no variable name is built from a missing Sex_Race.
C6_MalformedRecordDropped ==
    ~IsNone(st_out) =>
        /\ \A i \in DOMAIN st_out.rows :
              st_out.rows[i][3] \notin { create_sv(NaN, PyStr(pop_cols[a])) : a \in DOMAIN pop_cols }
        /\ Cardinality({ i \in DOMAIN st_out.rows : st_out.rows[i][4] = "dcs:CensusPEPSurvey" })
             = Len(pop_cols) * Cardinality({ i \in DOMAIN st_file : WellFormed(st_file[i]) })

-----------------------------------------------------------------------------
(* fbi/hate_crime/table9/preprocess.py: main *)

MaxXlsRows == 2

\* the first keys of _YEARWISE_CONFIG
Years == << "2020", "2019" >>

\* _OUTPUT_COLUMNS, as the row writer.writeheader() writes
OUTPUT_COLUMNS == [ Year |-> "Year", StatVar |-> "StatVar", Quantity |-> "Quantity" ]

\* Series.replace(r'\s+', ' ', regex=True) on text whose white space is blanks
RECURSIVE replace_spaces(_)
replace_spaces(s) == IF Contains(s, "  ") THEN replace_spaces(Replace(s, "  ", " ")) ELSE s

\* Series.str.strip()
RECURSIVE strip(_)
strip(s) ==
    IF s # "" /\ SubSeq(s, 1, 1) = " " THEN strip(SubSeq(s, 2, Len(s)))
    ELSE IF s # "" /\ SubSeq(s, Len(s), Len(s)) = " " THEN strip(SubSeq(s, 1, Len(s) - 1))
    ELSE s

\* _clean_dataframe followed by read_file.insert(_YEAR_INDEX, 'Year', year) and
\* to_csv: the records of the year's CSV file
clean_dataframe(df, year) ==
    [ i \in DOMAIN df |->
        [ Year |-> year, rea |-> strip(replace_spaces(df[i][1])), total |-> df[i][2] ] ]

\* _write_output_csv as a whole, from the record at position pos on: whether it
\* raised, the rows it wrote and the statvars it collected
RECURSIVE write_output_csv(_, _)
write_output_csv(rdr, pos) ==
    IF pos > Len(rdr) THEN [ raised |-> FALSE, rows |-> << >>, statvars |-> << >> ]
    ELSE With(pvs_lookup(config_pvs, rdr[pos].rea), LAMBDA known_offender_key_value :
         IF known_offender_key_value.raised
         THEN [ raised |-> TRUE, rows |-> << >>, statvars |-> << >> ]
         ELSE With(write_output_csv(rdr, pos + 1), LAMBDA rest :
              IF known_offender_key_value.value = "skip" THEN rest
              ELSE With(total_statvar(known_offender_key_value.value), LAMBDA statvar :
                   [ rest EXCEPT
                       !.rows = << write_row(rdr[pos].Year, statvar.Node, rdr[pos].total) >> \o @,
                       !.statvars = << statvar >> \o @ ])))

\* utils.create_csv_mcf from the file at position k on: the rows written to the
\* cleaned CSV after the header, the statvars returned, and whether a call of
\* _write_output_csv raised
RECURSIVE create_csv_mcf(_, _)
create_csv_mcf(files, k) ==
    IF k > Len(files) THEN [ raised |-> FALSE, rows |-> << >>, statvars |-> << >> ]
    ELSE With(write_output_csv(files[k], 1), LAMBDA one :
         IF one.raised THEN one
         ELSE With(create_csv_mcf(files, k + 1), LAMBDA rest :
              [ raised   |-> rest.raised,
                rows     |-> one.rows \o rest.rows,
                statvars |-> one.statvars \o rest.statvars ]))

\* utils.create_mcf: the content of the MCF file for a list of statvars
create_mcf(svs) == Range(svs)

\* open(path, 'w') and the writes that follow: the file of that name holds content
WriteFile(dir, name, content) ==
    SelectSeq(dir, LAMBDA f : f[1] # name) \o << << name, content >> >>

\* a variant of the end of main that writes the MCF whatever the flag
main_mcf_always(flag, dir, svs) == WriteFile(dir, "output.mcf", create_mcf(svs))

\* the end of main: output.mcf is written when the flag is set
main_mcf(flag, dir, svs) ==
    IF flag THEN WriteFile(dir, "output.mcf", create_mcf(svs)) ELSE dir

\* what a sheet holds in its two columns: a label as typed and a total
RawLabels == { "Total", "White", " Under  18 ", "Multiple races" }
Sheets == UNION { [ 1 .. n -> { << l, "12" >> : l \in RawLabels } ] : n \in 0 .. MaxXlsRows }

MainInit ==
    /\ main_pc = "convert"
    /\ gen_statvar_mcf \in BOOLEAN
    /\ xls_files \in [ DOMAIN Years -> Sheets ]
    /\ csv_files = << >>
    /\ output_dir = << >>
    /\ main_statvars = << >>
    /\ baseIdle /\ ctIdle /\ mpIdle /\ yrIdle /\ rtIdle /\ snIdle

\* the loop over _YEARWISE_CONFIG: every sheet is cleaned and saved as a CSV
MainConvert ==
    /\ main_pc = "convert"
    /\ csv_files' = [ k \in DOMAIN Years |-> clean_dataframe(xls_files[k], Years[k]) ]
    /\ main_pc' = "create_csv_mcf"
    /\ UNCHANGED << gen_statvar_mcf, xls_files, output_dir, main_statvars, baseVars, ctVars, mpVars, yrVars, rtVars, snVars >>

\* statvars = utils.create_csv_mcf(...): cleaned.csv is opened for writing, the
\* header is written, and each CSV goes through _write_output_csv
MainCreateCsvMcf ==
    /\ main_pc = "create_csv_mcf"
    /\ LET done == create_csv_mcf(csv_files, 1)
       IN  /\ output_dir' = WriteFile(output_dir, "cleaned.csv", << OUTPUT_COLUMNS >> \o done.rows)
           /\ main_statvars' = IF done.raised THEN main_statvars ELSE done.statvars
           /\ main_pc' = IF done.raised THEN "raised" ELSE "create_mcf"
    /\ UNCHANGED << gen_statvar_mcf, xls_files, csv_files, baseVars, ctVars, mpVars, yrVars, rtVars, snVars >>

\* if _FLAGS.gen_statvar_mcf: utils.create_mcf(statvars, mcf_path), and main returns
MainCreateMcf ==
    /\ main_pc = "create_mcf"
    /\ output_dir' = main_mcf(gen_statvar_mcf, output_dir, main_statvars)
    /\ main_pc' = "done"
    /\ UNCHANGED << gen_statvar_mcf, xls_files, csv_files, main_statvars, baseVars, ctVars, mpVars, yrVars, rtVars, snVars >>

MainNext == MainConvert \/ MainCreateCsvMcf \/ MainCreateMcf

MainSpec == MainInit /\ [][MainNext]_vars

\* the records of all sheets in order, with the label cleaned
AllRecords ==
    Flatten([ k \in DOMAIN Years |->
        [ i \in DOMAIN xls_files[k] |->
            [ Year |-> Years[k], rea |-> strip(replace_spaces(xls_files[k][i][1])),
              total |-> xls_files[k][i][2] ] ] ])

\* the number of records before the first one whose label is no key of config['pvs']
KnownPrefix ==
    IF \A i \in DOMAIN AllRecords : HasKey(config_pvs, AllRecords[i].rea)
    THEN Len(AllRecords)
    ELSE (CHOOSE i \in DOMAIN AllRecords :
             /\ ~HasKey(config_pvs, AllRecords[i].rea)
             /\ \A j \in 1 .. i - 1 : HasKey(config_pvs, AllRecords[j].rea)) - 1

\* the lines cleaned.csv holds for the sheets: the header, then a row per record
\* before the first unknown label that is not skipped
CleanedFor ==
    LET kept == SelectSeq(SubSeq(AllRecords, 1, KnownPrefix),
                          LAMBDA crime : DictGet(config_pvs, crime.rea) # "skip")
    IN  << OUTPUT_COLUMNS >> \o
        [ i \in DOMAIN kept |->
            [ Year     |-> kept[i].Year,
              StatVar  |-> "dcid:Count_CriminalIncidents_" \o DictGet(config_pvs, kept[i].rea),
              Quantity |-> kept[i].total ] ]

MainEnded == main_pc \in { "done", "raised" }

\* C11, as stated: a run of main that has ended has written cleaned.csv, has
\* written output.mcf if and only if gen_statvar_mcf is set, and the content of
\* cleaned.csv is determined by the sheets alone.
C11_McfIffFlagInEveryRun ==
    MainEnded =>
        /\ HasKey(output_dir, "cleaned.csv")
        /\ HasKey(output_dir, "output.mcf") <=> gen_statvar_mcf
        /\ DictGet(output_dir, "cleaned.csv") = CleanedFor

\* C11, amended: a run of main that has ended has written cleaned.csv with a
\* content determined by the sheets alone; a run that returned has written
\* output.mcf if and only if gen_statvar_mcf is set, and a run that ended with an
\* exception has written no output.mcf, whatever the flag.
C11_McfIffFlagWhenReturned ==
    /\ MainEnded =>
          /\ HasKey(output_dir, "cleaned.csv")
          /\ DictGet(output_dir, "cleaned.csv") = CleanedFor
    /\ main_pc = "done" => (HasKey(output_dir, "output.mcf") <=> gen_statvar_mcf)
    /\ main_pc = "raised" => ~HasKey(output_dir, "output.mcf")
    /\ ~MainEnded => ~HasKey(output_dir, "output.mcf")

\* a run without the flag has returned, with rows of both years in cleaned.csv
C11_ReturnedWithoutFlag ==
    /\ main_pc = "done" /\ ~gen_statvar_mcf
    /\ HasKey(output_dir, "cleaned.csv")
    /\ \E i, j \in DOMAIN DictGet(output_dir, "cleaned.csv") :
          /\ DictGet(output_dir, "cleaned.csv")[i].Year = "2020"
          /\ DictGet(output_dir, "cleaned.csv")[j].Year = "2019"

-----------------------------------------------------------------------------
(* _process_county_1990_1999 on its own: the read loop, line by line *)

MaxLines == 4

\* lines of a 1990-1999 county file: the Hispanic male and female rows of one
\* county, the Hispanic female row of another, a row of category 5, the white
\* non-Hispanic male row, and a line damaged down to two numeric tokens
CasrhLines ==
    { CasrhLine("1990", "1001", "11", "3"), CasrhLine("1990", "1001", "12", "4"),
      CasrhLine("1990", "1003", "12", "2"), CasrhLine("1990", "1001", "5", "1"),
      CasrhLine("1990", "1001", "1", "2"), << "1990", "1001" >> }

CtInit ==
    /\ ct_lines \in UNION { [ 1 .. n -> CasrhLines ] : n \in 1 .. MaxLines }
    /\ ct_pos = 0
    /\ final_data = << >>
    /\ data = << >>
    /\ skipped_rows = << >>
    /\ prev_origin_race_cat = None
    /\ curr_origin_race_cat = None
    /\ ct_out = NoneDf
    /\ baseIdle /\ mainIdle /\ mpIdle /\ yrIdle /\ rtIdle /\ snIdle

\* the locals of the read loop
ReadLocals ==
    [ final_data |-> final_data, skipped_rows |-> skipped_rows, data |-> data,
      prev_origin_race_cat |-> prev_origin_race_cat,
      curr_origin_race_cat |-> curr_origin_race_cat ]

\* one iteration of "for lines in file.readlines()"
ReadLine ==
    /\ IsNone(ct_out)
    /\ ct_pos < Len(ct_lines)
    /\ LET st == read_line(ReadLocals, ct_lines[ct_pos + 1])
       IN  /\ final_data' = st.final_data
           /\ skipped_rows' = st.skipped_rows
           /\ data' = st.data
           /\ prev_origin_race_cat' = st.prev_origin_race_cat
           /\ curr_origin_race_cat' = st.curr_origin_race_cat
    /\ ct_pos' = ct_pos + 1
    /\ UNCHANGED << ct_lines, ct_out, baseVars, mainVars, mpVars, yrVars, rtVars, snVars >>

\* the statements after the loop, up to the return
CountyReturn ==
    /\ IsNone(ct_out)
    /\ ct_pos = Len(ct_lines)
    /\ ct_out' = county_1990_1999(ReadLocals)
    /\ UNCHANGED << ct_lines, ct_pos, final_data, data, skipped_rows,
                    prev_origin_race_cat, curr_origin_race_cat, baseVars, mainVars, mpVars, yrVars, rtVars, snVars >>

CtNext == ReadLine \/ CountyReturn

CtSpec == CtInit /\ [][CtNext]_vars

\* the lines of 21 numeric tokens among the first n lines, in file order
RowsRead(n) == SelectSeq(SubSeq(ct_lines, 1, n), LAMBDA lines : Len(lines) = 21)

\* how many times a row occurs in a list
Occurrences(rows, row) == Cardinality({ i \in DOMAIN rows : rows[i] = row })

\* C12, as stated: once the whole file has been read, every line of 21 numeric
\* fields is in exactly one of final_data and skipped_rows, as many times as the
\* file holds it: none is lost, none is counted twice.
C12_EveryRowPairedOrSkipped ==
    ct_pos = Len(ct_lines) =>
        \A row \in Range(RowsRead(ct_pos)) :
            Occurrences(final_data \o skipped_rows, row) = Occurrences(RowsRead(ct_pos), row)

PairedCats == { << "1", "2" >>, << "3", "4" >>, << "11", "12" >> }

\* C13: after every iteration of the read loop, final_data is made of two-row
\* pairs with categories (1,2), (3,4) or (11,12) in that order, the rows of a pair
\* having been read one right after the other; data holds at most one row;
\* prev_origin_race_cat is the category of that row, None when data is empty; and
\* curr_origin_race_cat is None.
C13_ReadLoopInvariant ==
    /\ Len(final_data) % 2 = 0
    /\ \A k \in 1 .. Len(final_data) \div 2 :
          /\ << final_data[2 * k - 1][3], final_data[2 * k][3] >> \in PairedCats
          /\ \E i \in 1 .. Len(RowsRead(ct_pos)) - 1 :
                /\ RowsRead(ct_pos)[i] = final_data[2 * k - 1]
                /\ RowsRead(ct_pos)[i + 1] = final_data[2 * k]
    /\ Len(data) <= 1
    /\ prev_origin_race_cat = (IF data = << >> THEN None ELSE data[1][3])
    /\ curr_origin_race_cat = None

\* the loop has moved a row to skipped_rows, a pair to final_data, and holds a
\* pending row
C13_SkippedPairedAndPending ==
    skipped_rows # << >> /\ final_data # << >> /\ Len(data) = 1 /\ ct_pos = Len(ct_lines)

\* the count the output holds for a variable name, year and location
CountyCount(year, location, name) ==
    SumSeq([ i \in DOMAIN ct_out.rows |->
        IF /\ ct_out.rows[i][1] = PyStr(year) /\ ct_out.rows[i][2] = location
           /\ ct_out.rows[i][3] = name
        THEN ct_out.rows[i][5][2] ELSE 0 ])

\* C14, as stated: the two rows of every pair in final_data have the same Year and
\* county, and every derived row of the output is the sum of the male row and the
\* female row of its (Year, Location): both are in the output, and the derived
\* count is the sum of theirs.
C14_DerivedIsSumOfOnePair ==
    /\ \A k \in 1 .. Len(final_data) \div 2 :
          /\ final_data[2 * k - 1][1] = final_data[2 * k][1]
          /\ final_data[2 * k - 1][2] = final_data[2 * k][2]
    /\ (~IsNone(ct_out) /\ ~ct_out.raised) =>
          \A i \in DOMAIN ct_out.rows :
              ct_out.rows[i][4] = "dcs:dcAggregate/CensusPEPSurvey" =>
                  LET male   == Replace(ct_out.rows[i][3], "Years_", "Years_Male_")
                      female == Replace(ct_out.rows[i][3], "Years_", "Years_Female_")
                      at(name) == { j \in DOMAIN ct_out.rows :
                                      /\ ct_out.rows[j][1] = ct_out.rows[i][1]
                                      /\ ct_out.rows[j][2] = ct_out.rows[i][2]
                                      /\ ct_out.rows[j][3] = name }
                  IN  /\ at(male) # {} /\ at(female) # {}
                      /\ \E m \in at(male), f \in at(female) :
                            ct_out.rows[i][5][2] = ct_out.rows[m][5][2] + ct_out.rows[f][5][2]

-----------------------------------------------------------------------------
(* us_census/pep/monthly_population/preprocess.py *)

\* a missing cell (None, NaN, pd.NA, NaT)
NA == << "nan" >>
IsNA(v) == v[1] = "nan"

\* str(val)
Str(val) == IF IsNA(val) THEN "nan" ELSE Format(val)

UpperCase == "ABCDEFGHIJKLMNOPQRSTUVWXYZ"
LowerCase == "abcdefghijklmnopqrstuvwxyz"

\* str.lower()
RECURSIVE Lower(_)
Lower(s) ==
    IF s = "" THEN ""
    ELSE With(SubSeq(s, 1, 1), LAMBDA ch :
         (IF \E i \in 1 .. 26 : SubSeq(UpperCase, i, i) = ch
          THEN With(CHOOSE i \in 1 .. 26 : SubSeq(UpperCase, i, i) = ch,
                    LAMBDA i : SubSeq(LowerCase, i, i))
          ELSE ch) \o Lower(SubSeq(s, 2, Len(s))))

\* s.split(' ', maxsplit=1)[0]
FirstToken(s) ==
    IF Contains(s, " ")
    THEN SubSeq(s, 1, (CHOOSE i \in 1 .. Len(s) :
                          SubSeq(s, i, i) = " " /\ ~Contains(SubSeq(s, 1, i - 1), " ")) - 1)
    ELSE s

\* _extract_year
extract_year(val) ==
    With(FirstToken(strip(Str(val))), LAMBDA first :
         IF IsNumeric(first) /\ Len(first) = 4 THEN << TRUE, PyStr(first) >>
         ELSE << FALSE, NA >>)

\* _return_year
return_year(col) == IF extract_year(col)[1] THEN extract_year(col)[2] ELSE NA

\* _return_month
return_month(col) == IF extract_year(col)[1] THEN NA ELSE col

\* _sum_cols: col[0] when col[1] is missing, else the two joined by a blank
sum_cols(col0, col1) == IF IsNA(col1) THEN col0 ELSE PyStr(col0[2] \o " " \o col1[2])

\* a variant of the fill without the limit
RECURSIVE ffill_unlimited(_, _, _, _)
ffill_unlimited(col, limit, last, gap) ==
    IF col = << >> THEN << >>
    ELSE IF ~IsNA(Head(col))
    THEN << Head(col) >> \o ffill_unlimited(Tail(col), limit, Head(col), 0)
    ELSE << (IF IsNA(last) THEN NA ELSE last) >> \o ffill_unlimited(Tail(col), limit, last, 0)

\* Series.fillna(method='ffill', limit=limit): a missing cell takes the last value
\* above it when at most limit missing cells in a row have been met since
RECURSIVE ffill(_, _, _, _)
ffill(col, limit, last, gap) ==
    IF col = << >> THEN << >>
    ELSE IF ~IsNA(Head(col)) THEN << Head(col) >> \o ffill(Tail(col), limit, Head(col), 0)
    ELSE IF ~IsNA(last) /\ gap < limit
    THEN << last >> \o ffill(Tail(col), limit, last, gap + 1)
    ELSE << NA >> \o ffill(Tail(col), limit, last, gap + 1)

\* limit=12 of the fillna call
FfillLimit == 12

\* the column of a frame as a list
Column(df, name) == List([ i \in DOMAIN df.rows |-> Cell(df, df.rows[i], name) ])

\* lines 221-224: the columns Year and Month are added and the rows that miss
\* one of them are dropped
year_month(df) ==
    With(ffill(List([ i \in DOMAIN df.rows |->
                        return_year(Cell(df, df.rows[i], "Year and Month")) ]),
               FfillLimit, NA, 0), LAMBDA Year :
    With(Frame(df.cols \o << "Year", "Month" >>,
               List([ i \in DOMAIN df.rows |->
                        df.rows[i] \o << Year[i],
                                         return_month(Cell(df, df.rows[i], "Year and Month")) >> ])),
         LAMBDA added :
    Filter(added, LAMBDA r : ~IsNA(Cell(added, r, "Year")) /\ ~IsNA(Cell(added, r, "Month")))))

MonthNames ==
    << "January", "February", "March", "April", "May", "June", "July", "August",
       "September", "October", "November", "December" >>

\* pd.to_datetime(s, format='%Y%B%d', errors="coerce") followed by
\* strftime('%Y-%m'): yyyy-mm, or missing when s does not parse
to_year_month(s) ==
    IF Len(s) < 5 \/ ~IsNumeric(SubSeq(s, 1, 4)) THEN NA
    ELSE With(SubSeq(s, 5, Len(s)), LAMBDA rest :
         With({ m \in DOMAIN MonthNames :
                  /\ StartsWith(rest, MonthNames[m])
                  /\ IsNumeric(SubSeq(rest, Len(MonthNames[m]) + 1, Len(rest)))
                  /\ Len(rest) - Len(MonthNames[m]) <= 2
                  /\ ToInt(SubSeq(rest, Len(MonthNames[m]) + 1, Len(rest))) \in 1 .. 31 },
              LAMBDA ms :
         IF ms = {} THEN NA
         ELSE PyStr(SubSeq(s, 1, 4) \o "-" \o PadLeft(ToString(CHOOSE m \in ms : TRUE), 2, "0"))))

\* drop_duplicates(subset=['Date']), keep='first'
RECURSIVE drop_duplicates(_, _)
drop_duplicates(df, seen) ==
    IF df.rows = << >> THEN df
    ELSE With(Cell(df, Head(df.rows), "Date"), LAMBDA date :
         With(drop_duplicates([ df EXCEPT !.rows = Tail(@) ], seen \cup { date }), LAMBDA rest :
         IF date \in seen THEN rest ELSE [ rest EXCEPT !.rows = << Head(df.rows) >> \o @ ]))

\* lines 227-235: the column Date in the format yyyy-mm, the rows whose date does
\* not parse dropped, one row kept per Date
with_date(df) ==
    With(SetCol(df, "Date", LAMBDA r :
            to_year_month(Replace(Replace(Replace(
                Cell(df, r, "Year")[2] \o Cell(df, r, "Month")[2], ".", ""), " ", ""), "*", ""))),
         LAMBDA dated :
    drop_duplicates(Filter(dated, LAMBDA r : ~IsNA(Cell(dated, r, "Date"))), {}))

\* whether astype('int') accepts the value
IsIntLike(v) == v[1] \in { "int", "float" } \/ (v[1] = "str" /\ IsNumeric(v[2]))
\* int(value)
AsInt(v) == IF v[1] \in { "int", "float" } THEN v[2] ELSE ToInt(v[2])

RESIDENT == "Resident Population"
RESIDENT_PLUS == "Resident Population Plus Armed Forces Overseas"

\* a variant of the derived count that adds the two columns
overseas_added(plus, resident) == PyInt(AsInt(plus) + AsInt(resident))

\* lines 240-242, for one row
overseas(plus, resident) == PyInt(AsInt(plus) - AsInt(resident))

\* line 219
final_cols_of(df) == SelectSeq(df.cols, LAMBDA col : ~Contains(Lower(col), "year"))

\* lines 249-263: the name a final column is given
sv_name(col) ==
    "Count_Person_" \o
    Replace(Replace(strip(
        Replace(Replace(Replace(Replace(Replace(Replace(Replace(col,
            "Population ", ""), "Population", ""), " Plus ", "Or"),
            "Armed Forces Overseas", "InUSArmedForcesOverseas"),
            "Household", "ResidesInHousehold"), "Resident", "USResident"),
            "Noninstitutionalized", "NonInstitutionalized")),
        " ", "_"), "__", "_")

\* s * n for a str
RECURSIVE Repeat(_, _)
Repeat(s, n) ==
    IF n = 0 THEN ""
    ELSE IF n % 2 = 0 THEN With(Repeat(s, n \div 2), LAMBDA half : half \o half)
    ELSE s \o Repeat(s, n - 1)

\* whether astype('float') accepts the value
IsFloatLike(v) == IsNA(v) \/ IsIntLike(v)

\* a number is a Python int or a float (a float64 cell holding a whole number)
PyFloat(n) == << "float", n >>
IsNumber(v) == v[1] \in { "int", "float" }

\* value * factor for one cell of a column of objects
times(v, factor) ==
    IF IsNA(v) THEN NA
    ELSE IF v[1] = "str" THEN PyStr(Repeat(v[2], factor))
    ELSE << v[1], v[2] * factor >>

\* astype('Int64', errors="ignore"): whole numbers for a column of numbers, the
\* column as it is otherwise
as_Int64(col) ==
    IF \A i \in DOMAIN col : IsNA(col[i]) \/ IsNumber(col[i])
    THEN [ i \in DOMAIN col |-> IF IsNA(col[i]) THEN NA ELSE PyInt(col[i][2]) ]
    ELSE col

\* astype('float', errors="ignore"): floats when every value converts, the column
\* as it is otherwise
as_float(col) ==
    IF \A i \in DOMAIN col : IsFloatLike(col[i])
    THEN [ i \in DOMAIN col |-> IF IsNA(col[i]) THEN NA ELSE PyFloat(AsInt(col[i])) ]
    ELSE col

\* lines 271-274 for one column
scale_col(col, factor) ==
    as_Int64(IF factor # 1
             THEN With(as_float(col), LAMBDA floats :
                       [ i \in DOMAIN floats |-> times(floats[i], factor) ])
             ELSE col)

\* lines 269-274: every column with "count" in its name
RECURSIVE scale(_, _, _)
scale(df, factor, j) ==
    IF j > Len(df.cols) THEN df
    ELSE IF ~Contains(Lower(df.cols[j]), "count") THEN scale(df, factor, j + 1)
    ELSE With(scale_col(Column(df, df.cols[j]), factor), LAMBDA scaled :
         scale([ df EXCEPT !.rows = List([ i \in DOMAIN df.rows |->
                                            [ df.rows[i] EXCEPT ![j] = scaled[i] ] ]) ],
               factor, j + 1))

OVERSEAS == "Count_Person_InUSArmedForcesOverseas"

\* _transform_df up to line 274
transform_df_scaled(df, factor) ==
    IF ~HasCols(df, << "Year and Month" >>) THEN Raise("KeyError")
    ELSE
    With(final_cols_of(df), LAMBDA final_cols_list :
    With(with_date(year_month(df)), LAMBDA dated :
    IF ~HasCols(dated, << RESIDENT, RESIDENT_PLUS >>) THEN Raise("KeyError")
    ELSE IF \E i \in DOMAIN dated.rows :
               \/ ~IsIntLike(Cell(dated, dated.rows[i], RESIDENT))
               \/ ~IsIntLike(Cell(dated, dated.rows[i], RESIDENT_PLUS))
    THEN Raise("ValueError")
    ELSE
    With(SetCol(dated, OVERSEAS, LAMBDA r :
             overseas(Cell(dated, r, RESIDENT_PLUS), Cell(dated, r, RESIDENT))), LAMBDA derived :
    With(Select(derived, << "Date", OVERSEAS >> \o final_cols_list), LAMBDA picked :
    scale([ picked EXCEPT !.cols = << "Date", OVERSEAS >> \o
                List([ j \in DOMAIN final_cols_list |-> sv_name(final_cols_list[j]) ]) ],
          factor, 1)))))

\* the year of a Date
YearOf(date) == ToInt(SubSeq(date[2], 1, 4))

\* _year_range: str(max_year) + '-' + str(min_year); max() of an empty column raises
year_range(col) ==
    IF col = << >> THEN None
    ELSE ToString(CHOOSE y \in { YearOf(col[i]) : i \in DOMAIN col } :
                      \A i \in DOMAIN col : YearOf(col[i]) <= y)
         \o "-" \o
         ToString(CHOOSE y \in { YearOf(col[i]) : i \in DOMAIN col } :
                      \A i \in DOMAIN col : y <= YearOf(col[i]))

\* DataFrame.insert(loc, column, value)
Insert(df, loc, column, value) ==
    Frame(SubSeq(df.cols, 1, loc) \o << column >> \o SubSeq(df.cols, loc + 1, Len(df.cols)),
          List([ i \in DOMAIN df.rows |->
                   SubSeq(df.rows[i], 1, loc) \o << value >>
                     \o SubSeq(df.rows[i], loc + 1, Len(df.rows[i])) ]))

\* _transform_df from line 277 on
transform_df_tail(df) ==
    IF df.rows = << >> THEN Raise("ValueError")
    ELSE Insert(Insert(df, 1, "Location", PyStr("country/USA")),
                0, "date_range", PyStr(year_range(Column(df, "Date"))))

TXT_COLS ==
    << "Year and Month", "Date", RESIDENT, RESIDENT_PLUS, "Civilian Population",
       "Civilian NonInstitutionalized Population" >>

\* Series.str.replace(",", ""): missing for a value that is no str
str_replace_comma(v) == IF v[1] = "str" THEN PyStr(Replace(v[2], ",", "")) ELSE NA

\* CensusUSACountryPopulation._clean_txt_file on a frame with the columns TXT_COLS
clean_txt_file(df) ==
    Frame(<< "Year and Month" >> \o SubSeq(TXT_COLS, 3, 6),
          List([ i \in DOMAIN df.rows |->
            With(List([ j \in 1 .. 5 |->
                     str_replace_comma(IF j = 1 THEN sum_cols(df.rows[i][1], df.rows[i][2])
                                       ELSE df.rows[i][j + 1]) ]), LAMBDA r :
                 \* the rows of idx are moved left by one column
                 IF r[2] = PyStr("(census)") THEN << r[1], r[3], r[4], r[5], NA >> ELSE r) ]))

-----------------------------------------------------------------------------
(* CensusUSACountryPopulation.process *)

MaxInputFiles == 2

XLS_COLS == << "Year and Month" >> \o SubSeq(TXT_COLS, 3, 6)

\* a row of a table read from a .txt file: six tokens, or fewer with None after
TxtRow(ym, date, resident, plus, civilian, noninst) ==
    << PyStr(ym), date, resident, plus, civilian, noninst >>
\* a row of a table read from an .xlsx file
XlsRow(ym, resident, plus, civilian, noninst) ==
    << PyStr(ym), resident, plus, civilian, noninst >>

\* the files of the input directory, as _load_data reads them: a .txt file of the
\* year 2000 with a census row; a .txt file with a resident population that is
\* no number; an .xlsx file of 2000; an .xlsx file of 2001 and 2000; an .xlsx
\* file without a dated row
InputDir ==
    { << "input_data/nat-total.txt",
         Frame(TXT_COLS,
               << TxtRow("2000", NA, NA, NA, NA, NA),
                  TxtRow("July", PyStr("1"), PyStr("1,250"), PyStr("1,300"), PyStr("1,200"),
                         PyStr("1,100")),
                  TxtRow("April", PyStr("1"), PyStr("(census)"), PyStr("1,240"), PyStr("1,280"),
                         PyStr("1,190")) >>) >>,
      << "input_data/nat-total-1990.txt",
         Frame(TXT_COLS,
               << TxtRow("1990", NA, NA, NA, NA, NA),
                  TxtRow("July", PyStr("1"), PyStr("(NA)"), PyStr("1,000"), PyStr("900"),
                         PyStr("800")) >>) >>,
      << "input_data/NA-EST2009-01.xlsx",
         Frame(XLS_COLS,
               << XlsRow("2000", NA, NA, NA, NA),
                  XlsRow(".August 1", PyInt(1260000), PyInt(1320000), PyInt(1210000),
                         PyInt(1110000)),
                  XlsRow(".July 1", PyInt(1251000), PyInt(1302000), PyInt(1201000),
                         PyInt(1101000)) >>) >>,
      << "input_data/NA-EST2019-01.xlsx",
         Frame(XLS_COLS,
               << XlsRow("2001 [1]", NA, NA, NA, NA),
                  XlsRow(".January 1", PyInt(1270000), PyInt(1340000), PyInt(1220000),
                         PyInt(1120000)),
                  XlsRow("2000", NA, NA, NA, NA),
                  XlsRow(".July 1", PyInt(1252000), PyInt(1304000), PyInt(1202000),
                         PyInt(1102000)) >>) >>,
      << "input_data/NA-EST2021-01.xlsx",
         Frame(XLS_COLS, << XlsRow("2021", NA, NA, NA, NA) >>) >> }

MpInit ==
    /\ mp_pc = "start"
    /\ self_input_files \in UNION { [ 1 .. n -> InputDir ] : n \in 0 .. MaxInputFiles }
    /\ mp_idx = 0
    /\ scaling_factor = 1
    /\ self_df = NoneDf
    /\ cur_df = NoneDf
    /\ cleaned_csv_file = NoneDf
    /\ baseIdle /\ mainIdle /\ ctIdle /\ yrIdle /\ rtIdle /\ snIdle

\* the file the loop of process() is at
CurFile == self_input_files[mp_idx + 1][1]

\* df = self._load_data(file), and _transform_data up to the test of ".txt" in file
LoadData ==
    /\ mp_pc = "start"
    /\ mp_idx < Len(self_input_files)
    /\ cur_df' = self_input_files[mp_idx + 1][2]
    /\ mp_pc' = IF Contains(CurFile, ".txt") THEN "clean" ELSE "transform"
    /\ UNCHANGED << self_input_files, mp_idx, scaling_factor, self_df, cleaned_csv_file,
                    baseVars, mainVars, ctVars, yrVars, rtVars, snVars >>

\* df = self._clean_txt_file(df)
CleanTxtFile ==
    /\ mp_pc = "clean"
    /\ scaling_factor' = 1000
    /\ cur_df' = clean_txt_file(cur_df)
    /\ mp_pc' = "transform"
    /\ UNCHANGED << self_input_files, mp_idx, self_df, cleaned_csv_file,
                    baseVars, mainVars, ctVars, yrVars, rtVars, snVars >>

\* a variant of line 275 that leaves the factor as it is
keep_scaling_factor(factor) == factor

\* self.scaling_factor = 1
reset_scaling_factor(factor) == 1

\* df = self._transform_df(df)
TransformDf ==
    /\ mp_pc = "transform"
    /\ LET scaled == transform_df_scaled(cur_df, scaling_factor)
       IN  IF scaled.raised
           THEN /\ mp_pc' = "raised"
                /\ UNCHANGED << scaling_factor, cur_df >>
           ELSE /\ scaling_factor' = reset_scaling_factor(scaling_factor)
                /\ IF transform_df_tail(scaled).raised
                   THEN mp_pc' = "raised" /\ UNCHANGED cur_df
                   ELSE mp_pc' = "merge" /\ cur_df' = transform_df_tail(scaled)
    /\ UNCHANGED << self_input_files, mp_idx, self_df, cleaned_csv_file,
                    baseVars, mainVars, ctVars, yrVars, rtVars, snVars >>

\* self.df.append(df, ignore_index=True): the columns of self.df, then those of df
\* it does not have; a cell of a column a row does not have is missing
append(a, b) ==
    With(a.cols \o SelectSeq(b.cols, LAMBDA c : c \notin Range(a.cols)), LAMBDA cols :
    Frame(cols,
          List([ i \in DOMAIN a.rows |->
                   List([ j \in DOMAIN cols |->
                       IF cols[j] \in Range(a.cols) THEN Cell(a, a.rows[i], cols[j]) ELSE NA ]) ])
          \o
          List([ i \in DOMAIN b.rows |->
                   List([ j \in DOMAIN cols |->
                       IF cols[j] \in Range(b.cols) THEN Cell(b, b.rows[i], cols[j]) ELSE NA ]) ])))

\* the order of sort_values(by=['Date', 'date_range'], ascending=False): the later
\* Date first, and for one Date the greater date_range first, a missing one last
Before(df, r, s) ==
    \/ StrLess(Cell(df, s, "Date")[2], Cell(df, r, "Date")[2])
    \/ /\ Cell(df, r, "Date") = Cell(df, s, "Date")
       /\ ~IsNA(Cell(df, r, "date_range"))
       /\ \/ IsNA(Cell(df, s, "date_range"))
          \/ StrLess(Cell(df, s, "date_range")[2], Cell(df, r, "date_range")[2])

\* a variant of the sort that puts the earlier Date first
RECURSIVE sort_values_ascending(_)
sort_values_ascending(df) ==
    IF df.rows = << >> THEN df
    ELSE With(CHOOSE i \in DOMAIN df.rows :
                  /\ \A j \in DOMAIN df.rows : ~Before(df, df.rows[i], df.rows[j])
                  /\ \A j \in 1 .. i - 1 : Before(df, df.rows[j], df.rows[i]), LAMBDA i :
         [ df EXCEPT !.rows = << df.rows[i] >> \o
             sort_values_ascending([ df EXCEPT !.rows = SubSeq(@, 1, i - 1)
                                                 \o SubSeq(@, i + 1, Len(@)) ]).rows ])

\* sort_values: the first of the rows no other row is before, then the rest sorted
RECURSIVE sort_values(_)
sort_values(df) ==
    IF df.rows = << >> THEN df
    ELSE With(CHOOSE i \in DOMAIN df.rows :
                  /\ \A j \in DOMAIN df.rows : ~Before(df, df.rows[j], df.rows[i])
                  /\ \A j \in 1 .. i - 1 : Before(df, df.rows[i], df.rows[j]), LAMBDA i :
         [ df EXCEPT !.rows = << df.rows[i] >> \o
             sort_values([ df EXCEPT !.rows = SubSeq(@, 1, i - 1)
                                                 \o SubSeq(@, i + 1, Len(@)) ]).rows ])

\* a variant of drop_duplicates with keep='last'
RECURSIVE drop_duplicates_keep_last(_, _)
drop_duplicates_keep_last(df, seen) ==
    IF df.rows = << >> THEN df
    ELSE With(Cell(df, df.rows[Len(df.rows)], "Date"), LAMBDA date :
         With(drop_duplicates_keep_last([ df EXCEPT !.rows = SubSeq(@, 1, Len(@) - 1) ],
                                        seen \cup { date }), LAMBDA rest :
         IF date \in seen THEN rest
         ELSE [ rest EXCEPT !.rows = Append(@, df.rows[Len(df.rows)]) ]))

keep_last(df) == drop_duplicates_keep_last(df, {})

\* self.df.drop_duplicates("Date", keep=keep_value) with keep_value "first"
keep_first(df) == drop_duplicates(df, {})

\* lines 307-317: the new value of self.df
merged(old, new) ==
    Drop(keep_first(sort_values(IF IsNone(old) THEN new ELSE append(old, new))), "date_range")

\* lines 307-318, and the loop of process() moves to the next file
Merge ==
    /\ mp_pc = "merge"
    /\ self_df' = merged(self_df, cur_df)
    /\ cleaned_csv_file' = merged(self_df, cur_df)
    /\ mp_idx' = mp_idx + 1
    /\ mp_pc' = "start"
    /\ UNCHANGED << self_input_files, scaling_factor, cur_df, baseVars, mainVars, ctVars, yrVars, rtVars, snVars >>

\* after the loop: _generate_mcf and _generate_tmcf read self.df.columns, which
\* raises AttributeError while self.df is None
Generate ==
    /\ mp_pc = "start"
    /\ mp_idx = Len(self_input_files)
    /\ mp_pc' = IF IsNone(self_df) THEN "raised" ELSE "done"
    /\ UNCHANGED << self_input_files, mp_idx, scaling_factor, self_df, cur_df,
                    cleaned_csv_file, baseVars, mainVars, ctVars, yrVars, rtVars, snVars >>

MpNext == LoadData \/ CleanTxtFile \/ TransformDf \/ Merge \/ Generate

MpSpec == MpInit /\ [][MpNext]_vars

-----------------------------------------------------------------------------
(* Properties of CensusUSACountryPopulation.process *)

\* whether file k of self.input_files is a .txt file, and the factor its counts
\* are to be multiplied by
IsTxt(k) == Contains(self_input_files[k][1], ".txt")
FactorOf(k) == IF IsTxt(k) THEN 1000 ELSE 1

\* the table _transform_df is handed for file k
SourceDf(k) ==
    IF IsTxt(k) THEN clean_txt_file(self_input_files[k][2]) ELSE self_input_files[k][2]

\* what _transform_df returns for file k when it multiplies by factor
Transformed(k, factor) == transform_df_tail(transform_df_scaled(SourceDf(k), factor))

CountCols(df) == SelectSeq(df.cols, LAMBDA col : Contains(Lower(col), "count"))

C16_OneRowPerDateDescending ==
    ~IsNone(self_df) =>
        /\ "date_range" \notin Range(self_df.cols)
        /\ \A i, j \in DOMAIN self_df.rows :
              i < j => StrLess(Cell(self_df, self_df.rows[j], "Date")[2],
                               Cell(self_df, self_df.rows[i], "Date")[2])
        /\ cleaned_csv_file = self_df

\* two files with a month in common have been handled and three months are kept
C16_TwoFilesMerged ==
    mp_idx = 2 /\ ~IsNone(self_df) /\ Len(self_df.rows) = 3

\* the rows file k contributes, without the date_range column
FileRows(k) == Drop(Transformed(k, FactorOf(k)), "date_range")
DatesOf(df) == { Cell(df, df.rows[i], "Date") : i \in DOMAIN df.rows }

\* C17: every row of self.df is, for its Date, the row of the last file handled
\* so far that has the Date, and every Date of a file handled so far is in self.df.
C17_LatestFileWins ==
    ~IsNone(self_df) =>
        /\ \A i \in DOMAIN self_df.rows :
              LET date == Cell(self_df, self_df.rows[i], "Date")
                  has  == { k \in 1 .. mp_idx : date \in DatesOf(FileRows(k)) }
              IN  /\ has # {}
                  /\ LET last == CHOOSE k \in has : \A m \in has : m <= k
                     IN  \E r \in DOMAIN FileRows(last).rows :
                            FileRows(last).rows[r] = self_df.rows[i]
        /\ \A k \in 1 .. mp_idx : DatesOf(FileRows(k)) \subseteq DatesOf(self_df)

\* the file of 2001-2000 was handled first, the file of 2000 with different
\* counts for July 2000 second
C17_LaterFileHasSmallerRange ==
    /\ mp_idx = 2 /\ ~IsNone(self_df)
    /\ self_input_files[1][1] = "input_data/NA-EST2019-01.xlsx"
    /\ self_input_files[2][1] = "input_data/NA-EST2009-01.xlsx"

\* C18: in every row of the cleaned table
\* Count_Person_InUSArmedForcesOverseas is
\* Count_Person_USResidentOrInUSArmedForcesOverseas minus Count_Person_USResident.
C18_OverseasIsDifference ==
    ~IsNone(self_df) =>
        /\ HasCols(self_df, << OVERSEAS, "Count_Person_USResidentOrInUSArmedForcesOverseas",
                               "Count_Person_USResident" >>)
        /\ \A i \in DOMAIN self_df.rows :
              Cell(self_df, self_df.rows[i], OVERSEAS)[2]
                = Cell(self_df, self_df.rows[i],
                       "Count_Person_USResidentOrInUSArmedForcesOverseas")[2]
                  - Cell(self_df, self_df.rows[i], "Count_Person_USResident")[2]

\* the table holds the census row of the .txt file, scaled
C18_ScaledCensusRowKept ==
    /\ mp_pc = "done"
    /\ \E i \in DOMAIN self_df.rows :
          /\ Cell(self_df, self_df.rows[i], "Date") = PyStr("2000-04")
          /\ Cell(self_df, self_df.rows[i], OVERSEAS) = PyInt(40000)
          /\ Cell(self_df, self_df.rows[i], "Count_Person_USResident") = PyInt(1240000)

-----------------------------------------------------------------------------
(* the year given to a month row: lines 221-224 of _transform_df on their own *)

MaxGap == 14

\* cells of the column Year and Month that head a year, and cells that do not
YearCells == { "2000", "2000 [1]", " 1999 " }
MonthCells == { ".January 1", "20001" }

\* the column Year and Month: some month rows, a year row, month rows, and
\* possibly a second year row with month rows
YearAndMonthColumns ==
    UNION { { [ i \in 1 .. k |-> m ] \o << y >> \o [ i \in 1 .. n |-> m ] \o rest :
                k \in 0 .. 1, y \in YearCells, n \in 0 .. MaxGap,
                rest \in { << >> } \cup { << "2001" >> \o [ i \in 1 .. n2 |-> m ] :
                                            n2 \in 0 .. 2 } } :
            m \in MonthCells }

\* the table with that column; the second column numbers the rows
YrInit ==
    /\ \E col \in YearAndMonthColumns :
          yr_df = Frame(<< "Year and Month", RESIDENT >>,
                        [ i \in DOMAIN col |-> << PyStr(col[i]), PyInt(i) >> ])
    /\ yr_out = NoneDf
    /\ baseIdle /\ mainIdle /\ ctIdle /\ mpIdle /\ rtIdle /\ snIdle

\* lines 221-224
YearMonth ==
    /\ IsNone(yr_out)
    /\ yr_out' = year_month(yr_df)
    /\ UNCHANGED << yr_df, baseVars, mainVars, ctVars, mpVars, rtVars, snVars >>

YrNext == YearMonth

YrSpec == YrInit /\ [][YrNext]_vars

\* the first blank-separated token of the cell of row i, blanks around the cell
\* left out
Token(i) == FirstToken(strip(yr_df.rows[i][1][2]))
\* row i heads a year: the token is a number of four characters
IsYearRow(i) == Len(Token(i)) = 4 /\ IsNumeric(Token(i))
\* the year rows above row i that are at most 12 rows above it
YearRowsNear(i) == { j \in 1 .. i - 1 : IsYearRow(j) /\ i - j <= 12 }

\* C19: a month row with a year row at most 12 rows above it yields one row, with
\* the year of the nearest year row above it; a month row without one, and every
\* year row, yield no row.
C19_YearOfNearestHeaderWithin12 ==
    ~IsNone(yr_out) =>
        \A i \in DOMAIN yr_df.rows :
            LET got == { r \in DOMAIN yr_out.rows : yr_out.rows[r][2] = PyInt(i) }
            IN  IF ~IsYearRow(i) /\ YearRowsNear(i) # {}
                THEN /\ Cardinality(got) = 1
                     /\ \A r \in got :
                           Cell(yr_out, yr_out.rows[r], "Year")
                             = PyStr(Token(CHOOSE j \in YearRowsNear(i) :
                                               \A m \in YearRowsNear(i) : m <= j))
                ELSE got = {}

\* a year row followed by 14 month rows: 12 of them are kept
C19_TwelveOfFourteenKept ==
    /\ ~IsNone(yr_out)
    /\ Len(yr_df.rows) = 15 /\ IsYearRow(1)
    /\ Len(yr_out.rows) = 12

-----------------------------------------------------------------------------
(* the two routes of a .txt source: preprocess.py on the .txt file, and
   download.py saving an .xlsx file that preprocess.py then reads *)

MaxTxtRows == 3

SCALING_FACTOR_TXT_FILE == 1000

\* download.py _mulitply: a value that is all digits becomes the int times the
\* factor; a missing value or any other str is returned as it is
mulitply(col, factor) ==
    IF IsNA(col) THEN col
    ELSE IF IsNumeric(col[2]) THEN PyInt(ToInt(col[2]) * factor)
    ELSE col

\* download.py clean_txt_file: the columns joined, the commas removed and the
\* '(census)' rows moved left as in _clean_txt_file of preprocess.py, then every
\* value of a column without "year" in its name goes through _mulitply
download_clean_txt_file(df, scaling_factor_txt_file) ==
    With(clean_txt_file(df), LAMBDA cleaned :
    IF scaling_factor_txt_file = 1 THEN cleaned
    ELSE Frame(cleaned.cols,
               List([ i \in DOMAIN cleaned.rows |->
                   List([ j \in DOMAIN cleaned.cols |->
                       IF Contains(Lower(cleaned.cols[j]), "year") THEN cleaned.rows[i][j]
                       ELSE mulitply(cleaned.rows[i][j], scaling_factor_txt_file) ]) ])))

\* df.to_excel(..., index=False): the header and the cells, a missing value as an
\* empty cell
to_excel(df) == df

\* pd.read_excel(file): the first row names the columns; a column of numbers
\* with an empty cell is a column of floats, any other column keeps its cells
read_excel(xlsx) ==
    Frame(xlsx.cols,
          List([ i \in DOMAIN xlsx.rows |->
              List([ j \in DOMAIN xlsx.cols |->
                  IF /\ xlsx.rows[i][j][1] = "int"
                     /\ \A k \in DOMAIN xlsx.rows :
                           IsNA(xlsx.rows[k][j]) \/ xlsx.rows[k][j][1] = "int"
                     /\ \E k \in DOMAIN xlsx.rows : IsNA(xlsx.rows[k][j])
                  THEN PyFloat(xlsx.rows[i][j][2])
                  ELSE xlsx.rows[i][j] ]) ]))

\* download.py _save_data for the table read from a .txt url
save_data(df) == to_excel(download_clean_txt_file(df, SCALING_FACTOR_TXT_FILE))

\* _transform_df and lines 307-317 of _transform_data for the first file of a run
transform_data(df, factor) ==
    With(transform_df_scaled(df, factor), LAMBDA scaled :
    IF scaled.raised THEN scaled
    ELSE With(transform_df_tail(scaled), LAMBDA whole :
         IF whole.raised THEN whole ELSE merged(NoneDf, whole)))

\* the months of the rows of the .txt table, by position
TxtMonths == << "December", "November", "October", "September", "August", "July" >>

\* the tokens after the month of a row of the .txt file: numbers with commas,
\* numbers without, a '(census)' row, a civilian population that is not available
TxtRowKinds ==
    { << PyStr("1"), PyStr("1,250"), PyStr("1,300"), PyStr("1,200"), PyStr("1,100") >>,
      << PyStr("1"), PyStr("950"), PyStr("990"), PyStr("900"), PyStr("800") >>,
      << PyStr("1"), PyStr("(census)"), PyStr("1,240"), PyStr("1,280"), PyStr("1,190") >>,
      << PyStr("1"), PyStr("1,000"), PyStr("1,100"), PyStr("(NA)"), PyStr("800") >> }

\* the tables read_table returns: the row of the year, then the rows of months
TxtTables ==
    { Frame(TXT_COLS,
            << TxtRow("2000", NA, NA, NA, NA, NA) >> \o
            [ i \in DOMAIN kinds |-> << PyStr(TxtMonths[i]) >> \o kinds[i] ]) :
        kinds \in UNION { [ 1 .. n -> TxtRowKinds ] : n \in 1 .. MaxTxtRows } }

RtInit ==
    /\ rt_txt \in TxtTables
    /\ rt_preprocess = NoneDf
    /\ rt_xlsx = NoneDf
    /\ rt_download = NoneDf
    /\ baseIdle /\ mainIdle /\ ctIdle /\ mpIdle /\ yrIdle /\ snIdle

\* preprocess.py on the .txt file: _clean_txt_file sets the factor to 1000
PreprocessTxt ==
    /\ IsNone(rt_preprocess)
    /\ rt_preprocess' = transform_data(clean_txt_file(rt_txt), 1000)
    /\ UNCHANGED << rt_txt, rt_xlsx, rt_download, baseVars, mainVars, ctVars, mpVars, yrVars, snVars >>

\* download.py on the .txt url
SaveData ==
    /\ IsNone(rt_xlsx)
    /\ rt_xlsx' = save_data(rt_txt)
    /\ UNCHANGED << rt_txt, rt_preprocess, rt_download, baseVars, mainVars, ctVars, mpVars,
                    yrVars, snVars >>

\* preprocess.py on the saved .xlsx file: the factor stays 1
PreprocessXlsx ==
    /\ ~IsNone(rt_xlsx)
    /\ IsNone(rt_download)
    /\ rt_download' = transform_data(read_excel(rt_xlsx), 1)
    /\ UNCHANGED << rt_txt, rt_preprocess, rt_xlsx, baseVars, mainVars, ctVars, mpVars, yrVars, snVars >>

RtNext == PreprocessTxt \/ SaveData \/ PreprocessXlsx

RtSpec == RtInit /\ [][RtNext]_vars

\* the rows of the .txt table that have a Date, with the tokens as they are
\* after the commas are removed and the '(census)' rows moved left
TxtDated == with_date(year_month(clean_txt_file(rt_txt)))

\* the row of a table for a Date
RowOf(df, date) == CHOOSE r \in Range(df.rows) : Cell(df, r, "Date") = date

\* both routes have returned a table
BothRoutesDone ==
    /\ ~IsNone(rt_preprocess) /\ ~rt_preprocess.raised
    /\ ~IsNone(rt_download) /\ ~rt_download.raised

\* C20: on either route a value of the .txt source that is all digits reaches
\* the monthly cleaned table multiplied by 1000 exactly once, so both routes give
\* the same number, and the values of a '(census)' row are those one column to
\* the right in the file
C20_BothRoutesScaleOnce ==
    BothRoutesDone =>
        \A i \in DOMAIN TxtDated.rows : \A j \in 3 .. 6 :
            With(Cell(TxtDated, TxtDated.rows[i], TXT_COLS[j]), LAMBDA token :
            With(Cell(TxtDated, TxtDated.rows[i], "Date"), LAMBDA date :
                (~IsNA(token) /\ IsNumeric(token[2])) =>
                    /\ Cell(rt_preprocess, RowOf(rt_preprocess, date), sv_name(TXT_COLS[j]))
                         = PyInt(ToInt(token[2]) * 1000)
                    /\ Cell(rt_download, RowOf(rt_download, date), sv_name(TXT_COLS[j]))
                         = PyInt(ToInt(token[2]) * 1000)))

-----------------------------------------------------------------------------
(* one 1990-1999 state file through the loop of process(): the national rows
   of an sasrh file *)

MaxSasrhRecords == 2

\* a record of a 1990-1999 state file: Year, state, Age and 16 counts
SasrhRow(year, state, age, v) == << year, state, age >> \o [ i \in 1 .. 16 |-> v + (i % 3) ]

\* Alabama and Alaska 1990 of age 0, California 1990 of age 85 and of age 0,
\* Alabama 1991 of age 0, and a second record of Alabama 1990 of age 0
SasrhRecords ==
    { SasrhRow(1990, 1, 0, 2), SasrhRow(1990, 2, 0, 3), SasrhRow(1990, 6, 85, 1),
      SasrhRow(1990, 6, 0, 5), SasrhRow(1991, 1, 0, 4), SasrhRow(1990, 1, 0, 7) }

\* a file with the race by Hispanic origin layout, and one without the h
SasrPaths == { "ip_data/sasrh90.txt", "ip_data/sasr90.txt" }

SnInit ==
    /\ sn_path \in SasrPaths
    /\ sn_file \in UNION { [ 1 .. n -> SasrhRecords ] : n \in 1 .. MaxSasrhRecords }
    /\ sn_pc = "loop"
    /\ sn_csv = << >>
    /\ baseIdle /\ mainIdle /\ ctIdle /\ mpIdle /\ yrIdle /\ rtIdle

\* the table _load_data_df returns for the file
SasrFrame == Frame(IntLabels(19), sn_file)

\* the table of the state rows: _process_state_1990_1999, then _convert_to_int
StateTable == convert_to_int(state_1990_1999(SasrFrame))

\* the body of the loop of process() for the file: lines 1019-1024 and 1045-1049;
\* an exception of the processor leaves process()
ProcessSasr ==
    /\ sn_pc = "loop"
    /\ With(with_nationals(sn_path, state_1990_1999(SasrFrame)), LAMBDA data_df :
            IF data_df.raised
            THEN sn_pc' = "raised" /\ UNCHANGED sn_csv
            ELSE sn_pc' = "done" /\ sn_csv' = to_csv_append(sn_csv, convert_to_int(data_df)))
    /\ UNCHANGED << sn_path, sn_file, baseVars, mainVars, ctVars, mpVars, yrVars, rtVars >>

SnNext == ProcessSasr

SnSpec == SnInit /\ [][SnNext]_vars

\* the lines of the cleaned csv file for the country, and those for the states
NationalLines == SelectSeq(sn_csv, LAMBDA line : line[2] = "country/USA")
StateLines == SelectSeq(sn_csv, LAMBDA line : line[2] # "country/USA")

\* the sum of Count_Person over the lines with the Year, SV and Measurement_Method
\* of a line
CountOver(lines, key) ==
    SumSeq([ i \in DOMAIN lines |->
        IF << lines[i][1], lines[i][3], lines[i][4] >> = << key[1], key[3], key[4] >>
        THEN ToInt(lines[i][5]) ELSE 0 ])

\* C21: for a file whose path contains sasrh the loop of process() appends the
\* state rows unchanged and then rows of country/USA, one for each (Year, SV,
\* Measurement_Method) of the state rows, whose Count_Person is the sum of the
\* Count_Person of the state rows with that Year, SV and Measurement_Method; a
\* file whose path contains sasr without the h gets the state rows only.
C21_NationalIsSumOfStates ==
    sn_pc # "loop" =>
        /\ sn_pc = "done"
        /\ StateLines = CsvLines(StateTable)
        /\ sn_csv = StateLines \o NationalLines
        /\ IF Contains(sn_path, "sasrh")
           THEN /\ \A i \in DOMAIN StateLines :
                      Cardinality({ j \in DOMAIN NationalLines :
                          << NationalLines[j][1], NationalLines[j][3], NationalLines[j][4] >>
                            = << StateLines[i][1], StateLines[i][3], StateLines[i][4] >> }) = 1
                /\ \A j \in DOMAIN NationalLines :
                      /\ CountOver(StateLines, NationalLines[j]) = ToInt(NationalLines[j][5])
                      /\ \E i \in DOMAIN StateLines :
                            << NationalLines[j][1], NationalLines[j][3], NationalLines[j][4] >>
                              = << StateLines[i][1], StateLines[i][3], StateLines[i][4] >>
           ELSE NationalLines = << >>

-----------------------------------------------------------------------------
(* the derivation tables of cols_map.py whose entries are summed *)

\* the tables _derive_cols and the groupby sums take their constituents from;
\* nationals_1980_1999_hispanic is the table of differences
SummedTables ==
    { "nationals_1980_1999_derived", "nationals_2000_2009", "nationals_2010_2021",
      "state_1980_1989", "state_1990_1999", "state_2010_2020_hispanic",
      "state_2010_2020_total", "county_1900_1999", "county_2000_2009", "county_2010_2020" }

\* the name of an entry states a sex
HasSex(name) == StartsWith(name, "Male_") \/ StartsWith(name, "Female_")

\* the constituents of an entry match the category its name states
EntryMatches(name, constituents) ==
    /\ Contains(name, "NotHispanicOrLatino") =>
          \A c \in Range(constituents) : Contains(c, "NotHispanicOrLatino")
    /\ (Contains(name, "HispanicOrLatino") /\ ~Contains(name, "NotHispanicOrLatino")) =>
          \A c \in Range(constituents) : ~Contains(c, "NotHispanicOrLatino")
    /\ ~HasSex(name) =>
          /\ \E c \in Range(constituents) : StartsWith(c, "Male_")
          /\ \E c \in Range(constituents) : StartsWith(c, "Female_")
          /\ \A c \in Range(constituents) : Contains(c, strip_computed(name))

\* the entries of a table whose constituents do not match the name
Mismatched(table) ==
    { e \in DOMAIN get_mapper_cols_dict(table) :
        ~EntryMatches(get_mapper_cols_dict(table)[e][1], get_mapper_cols_dict(table)[e][2]) }

\* C22: in every summed derivation table of cols_map the constituents of an entry
\* match the category its name states: those of a NotHispanicOrLatino entry all
\* contain NotHispanicOrLatino, those of any other HispanicOrLatino entry do not,
\* and an entry without a Male_ or Female_ prefix lists constituents of both
\* sexes of its own category.
C22_ConstituentsMatchName ==
    \* the table _derive_cols is called with
    /\ Mismatched(dc_table) = {}
    \* the tables whose constituents a groupby sums
    /\ \A table \in SummedTables \ DerivationTables : Mismatched(table) = {}

=============================================================================
